---------------------------- MODULE Spec2Model ----------------------------
(***************************************************************************)
(* Model of the polyglott-translator translation engine: the provider      *)
(* adapters and the fan-out coordinator of translator.py.                 *)
(***************************************************************************)
EXTENDS Integers, Sequences, FiniteSets, TLC

VARIABLES
    http,       \* the POST /translate request in flight and its response
    keyreqs,    \* the key-store requests (save, delete) in flight
    glossreqs,  \* the glossary and vocab-test requests in flight
    lookup,     \* one direct get_api_key call: its arguments and its outcome
    probe,      \* one direct adapter call: its arguments, then its outcome
    req,        \* the arguments of the translate_to_all_languages call
    db,         \* storage: users and their stored API keys
    net,        \* what each provider's endpoint answers during the request
    pc,         \* position of the coordinator's main thread
    loc,        \* the coordinator's locals (source, targets, keys, translators)
    futures,    \* the futures submitted to the executor, in submission order
    collected,  \* futures the as_completed loop has already handled
    result      \* the result dict under construction

vars == <<http, keyreqs, glossreqs, lookup, probe, req, db, net, pc, loc,
          futures, collected, result>>

---------------------------------------------------------------------------
(* Python values.  A value carries its type: the adapters return whatever  *)
(* the decoded JSON holds, which need not be a str.                        *)

Str(s) == [type |-> "str", v |-> s]
None == [type |-> "NoneType", v |-> ""]
Num == [type |-> "int", v |-> "7"]
\* an exception propagating out of an expression
Raised == [type |-> "raise", v |-> ""]

\* Python truthiness of None, a str or a number
Truthy(x) == ~(x.type = "NoneType" \/ (x.type = "str" /\ x.v = ""))

NO_API_KEY == Str("[No API Key]")
LIMIT == Str("[Limit]")
ERROR == Str("[Error]")

---------------------------------------------------------------------------
(* Language registry.                                                      *)

LANGUAGE_CODES ==
    [german |-> "de", english |-> "en", spanish |-> "es", polish |-> "pl",
     french |-> "fr", italian |-> "it", portuguese |-> "pt", dutch |-> "nl",
     russian |-> "ru"]

\* faulty variant: a name outside the registry gets the code of the default
\* source language whatever the caller's default is
CodeOf_sourceDefault(name, default) ==
    IF name \in DOMAIN LANGUAGE_CODES THEN LANGUAGE_CODES[name] ELSE "de"

\* LANGUAGE_CODES.get(name, default)
CodeOf(name, default) ==
    IF name \in DOMAIN LANGUAGE_CODES THEN LANGUAGE_CODES[name] ELSE default

---------------------------------------------------------------------------
(* Network.  A response is a transport failure or an HTTP answer with a    *)
(* status and a body.  The body is classified by the path the decoding     *)
(* code takes on it:                                                       *)
(*   notjson     response.json() raises                                    *)
(*   wrongshape  JSON, but a lookup on it raises (wrong container, key or  *)
(*               index missing)                                            *)
(*   empty       the expected container without any translation            *)
(*   null        the translation field is present and null                 *)
(*   number      the translation field is present and a number             *)
(*   text        the translation field is a non-empty string, resp.text    *)

Statuses == {200, 403, 429, 456, 500}
Bodies == {"notjson", "wrongshape", "empty", "null", "number", "text"}

Timeout == [kind |-> "timeout", status |-> 0, body |-> "empty", text |-> ""]
ConnError == [kind |-> "connerr", status |-> 0, body |-> "empty", text |-> ""]
Http(status, body, text) ==
    [kind |-> "http", status |-> status, body |-> body, text |-> text]

\* the word a provider's well-formed body carries for a target code
WordFor(target) ==
    CASE target = "en" -> "house"
      [] target = "es" -> "casa"
      [] target = "pl" -> "dom"
      [] target = "de" -> "Haus"
      [] OTHER -> "maison"

\* the answers an endpoint may give to one call
Responses(word) ==
    {Timeout, ConnError}
      \cup {Http(200, b, IF b = "text" THEN word ELSE "") : b \in Bodies}
      \cup {Http(s, "empty", "") : s \in Statuses \ {200}}

\* a call record: what an adapter hands back and how many requests it sent
Ret(value, calls) == [out |-> value, calls |-> calls]


---------------------------------------------------------------------------
(* Provider adapters.  Each takes the response its endpoint gives to the   *)
(* one request it may send (Lingva: one response per instance).            *)

\* faulty variant: no try/except around the adapter body: the exception propagates
ExceptError_propagate(r) == r

\* try: ... except Exception: return "[Error]"
ExceptError(r) == IF r.out = Raised THEN Ret(ERROR, r.calls) ELSE r

\* try: ... except Exception: return ""
ExceptEmpty(r) == IF r.out = Raised THEN Ret(Str(""), r.calls) ELSE r

\* data["translations"][0]["text"] and its like: the field as decoded
Leaf(resp) ==
    CASE resp.body = "null" -> None
      [] resp.body = "number" -> Num
      [] OTHER -> Str(resp.text)

\* requests raises on a transport failure, response.json() on a body that
\* is not JSON, a lookup on a body of the wrong shape
Raises(resp) == resp.kind # "http"
BadJson(resp) == resp.body \in {"notjson", "wrongshape"}

GoogleKeyed(resp) ==
    IF Raises(resp) THEN Raised
    ELSE IF resp.status = 200
         THEN IF BadJson(resp) THEN Raised
              ELSE IF resp.body # "empty" THEN Leaf(resp)
              ELSE ERROR
    ELSE IF resp.status = 403 THEN NO_API_KEY
    ELSE IF resp.status = 429 THEN LIMIT
    ELSE ERROR

\* "".join([item[0] for item in result[0] if item[0]])
GoogleFree(resp) ==
    IF Raises(resp) THEN Raised
    ELSE IF resp.status = 200
         THEN IF BadJson(resp) THEN Raised
              ELSE IF resp.body = "empty" THEN ERROR
              ELSE IF resp.body = "null" THEN Str("")
              ELSE IF resp.body = "number" THEN Raised
              ELSE Str(resp.text)
    ELSE IF resp.status = 429 THEN LIMIT
    ELSE ERROR

translate_google(text, source, target, api_key, resp) ==
    ExceptError(
        IF source = target THEN Ret(Str(text), 0)
        ELSE IF Truthy(api_key) THEN Ret(GoogleKeyed(resp), 1)
        ELSE Ret(GoogleFree(resp), 1))

\* faulty variant: 456, DeepL's quota signal, is not recognised
DeeplAnswer_only429(resp) ==
    IF Raises(resp) THEN Raised
    ELSE IF resp.status = 200
         THEN IF BadJson(resp) THEN Raised
              ELSE IF resp.body # "empty" THEN Leaf(resp)
              ELSE ERROR
    ELSE IF resp.status = 429 THEN LIMIT
    ELSE ERROR

DeeplAnswer(resp) ==
    IF Raises(resp) THEN Raised
    ELSE IF resp.status = 200
         THEN IF BadJson(resp) THEN Raised
              ELSE IF resp.body # "empty" THEN Leaf(resp)
              ELSE ERROR
    ELSE IF resp.status \in {429, 456} THEN LIMIT
    ELSE ERROR

\* faulty variant: the request is sent whether or not there is a key
translate_deepl_nokeycheck(text, source, target, api_key, resp) ==
    ExceptError(
        IF source = target THEN Ret(Str(text), 0)
        ELSE Ret(DeeplAnswer(resp), 1))

translate_deepl(text, source, target, api_key, resp) ==
    ExceptError(
        IF source = target THEN Ret(Str(text), 0)
        ELSE IF ~Truthy(api_key) THEN Ret(NO_API_KEY, 0)
        ELSE Ret(DeeplAnswer(resp), 1))

\* the three public instances, tried in list order
LingvaInstances == 3

\* one pass of the for loop, from instance i on; n requests sent before it
RECURSIVE LingvaLoop(_, _, _)
LingvaLoop(resps, i, n) ==
    IF i > Len(resps) THEN Ret(ERROR, n)
    ELSE LET resp == resps[i] IN
         IF Raises(resp) THEN LingvaLoop(resps, i + 1, n + 1)
         ELSE IF resp.status = 200
              THEN IF BadJson(resp) THEN LingvaLoop(resps, i + 1, n + 1)
                   ELSE IF resp.body \in {"number", "text"}
                        THEN Ret(Leaf(resp), n + 1)
                   ELSE LingvaLoop(resps, i + 1, n + 1)
         ELSE IF resp.status = 429 THEN Ret(LIMIT, n + 1)
         ELSE LingvaLoop(resps, i + 1, n + 1)

\* faulty variant: only the first instance is asked
translate_lingva_firstOnly(text, source, target, resps) ==
    ExceptError(
        IF source = target THEN Ret(Str(text), 0)
        ELSE LingvaLoop(SubSeq(resps, 1, 1), 1, 0))

translate_lingva(text, source, target, resps) ==
    ExceptError(
        IF source = target THEN Ret(Str(text), 0)
        ELSE LingvaLoop(resps, 1, 0))

\* the hits of a 200 body, cleaned and joined
PonsAnswer(resp) ==
    IF Raises(resp) THEN Raised
    ELSE IF resp.status = 200
         THEN IF BadJson(resp) THEN Raised
              ELSE IF resp.body = "empty" THEN ERROR
              ELSE IF resp.body \in {"null", "number"} THEN Raised
              ELSE Str(resp.text)
    ELSE IF resp.status = 429 THEN LIMIT
    ELSE ERROR

\* faulty variant: the key is checked before the languages are compared
translate_pons_keyfirst(text, source, target, api_key, resp) ==
    ExceptError(
        IF ~Truthy(api_key) THEN Ret(NO_API_KEY, 0)
        ELSE IF source = target THEN Ret(Str(text), 0)
        ELSE Ret(PonsAnswer(resp), 1))

translate_pons(text, source, target, api_key, resp) ==
    ExceptError(
        IF source = target THEN Ret(Str(text), 0)
        ELSE IF ~Truthy(api_key) THEN Ret(NO_API_KEY, 0)
        ELSE Ret(PonsAnswer(resp), 1))

---------------------------------------------------------------------------
(* Enrichment adapters.                                                    *)

PonsDefinitionAnswer(resp) ==
    IF Raises(resp) THEN Raised
    ELSE IF resp.status = 200
         THEN IF BadJson(resp) THEN Raised
              ELSE IF resp.body \in {"empty", "null"} THEN Str("")
              ELSE IF resp.body = "number" THEN Raised
              ELSE Str(resp.text)
    ELSE Str("")

\* faulty variant: the request is sent whether or not there is a key
get_pons_definition_nokeycheck(text, lang_code, api_key, resp) ==
    ExceptEmpty(Ret(PonsDefinitionAnswer(resp), 1))

get_pons_definition(text, lang_code, api_key, resp) ==
    IF ~Truthy(api_key) THEN Ret(Str(""), 0)
    ELSE ExceptEmpty(Ret(PonsDefinitionAnswer(resp), 1))

GroqAnswer(resp) ==
    IF Raises(resp) THEN Raised
    ELSE IF resp.status = 200
         THEN IF BadJson(resp) THEN Raised
              ELSE IF resp.body = "empty" THEN Str("")
              ELSE IF resp.body \in {"null", "number"} THEN Raised
              ELSE Str(resp.text)
    ELSE IF resp.status = 429 THEN Str("[Limit] API-Limit erreicht")
    ELSE Str("")

get_groq_explanation(text, lang_code, api_key, resp) ==
    IF ~Truthy(api_key) THEN Ret(Str(""), 0)
    ELSE ExceptEmpty(Ret(GroqAnswer(resp), 1))

---------------------------------------------------------------------------
(* Credential resolution.  db.users maps a user id to its row, db.api_keys *)
(* is the user_api_keys table, db.env the deployment's shared keys.  A     *)
(* user's age is the whole days since created_at.                          *)

TRIAL_DAYS == 7

\* mapping.get(service, ""); key if key else None
AdminKey(env, service) ==
    IF service \in DOMAIN env /\ env[service] # "" THEN Str(env[service])
    ELSE None

\* ADMIN_X or None
AdminFallback(env, service) ==
    IF env[service] # "" THEN Str(env[service]) ELSE None

\* decrypt_api_key raises on a token it cannot decrypt
decrypt_api_key(row) == IF row.ok THEN Str(row.plain) ELSE Raised

\* faulty variant: the trial window is looked at before the user's own key
get_api_key_trialfirst(user_id, service, d) ==
    LET rows == {k \in d.api_keys : k.user_id = user_id /\ k.service = service}
        trial == /\ user_id \in DOMAIN d.users
                 /\ d.users[user_id].has_created_at
                 /\ d.users[user_id].age < TRIAL_DAYS
    IN  IF trial THEN AdminKey(d.env, service)
        ELSE IF rows # {}
        THEN LET plain == decrypt_api_key(CHOOSE k \in rows : TRUE)
             IN  IF plain = Raised THEN None ELSE plain
        ELSE None

\* faulty variant: the deployment's key goes to every user without a key
get_api_key_noexpiry(user_id, service, d) ==
    LET rows == {k \in d.api_keys : k.user_id = user_id /\ k.service = service}
    IN  IF rows # {}
        THEN LET plain == decrypt_api_key(CHOOSE k \in rows : TRUE)
             IN  IF plain = Raised THEN None ELSE plain
        ELSE IF user_id \notin DOMAIN d.users THEN None
        ELSE AdminKey(d.env, service)

\* faulty variant: a stored key that does not decrypt is passed over
get_api_key_fallback(user_id, service, d) ==
    LET rows == {k \in d.api_keys : k.user_id = user_id /\ k.service = service}
        plain == IF rows # {} THEN decrypt_api_key(CHOOSE k \in rows : TRUE)
                 ELSE Raised
    IN  IF plain # Raised THEN plain
        ELSE IF user_id \notin DOMAIN d.users THEN None
        ELSE LET user == d.users[user_id] IN
             IF user_id = 1 \/ user.username = "admin"
             THEN AdminKey(d.env, service)
             ELSE IF ~user.has_created_at THEN AdminKey(d.env, service)
             ELSE IF user.age < TRIAL_DAYS THEN AdminKey(d.env, service)
             ELSE None

get_api_key(user_id, service, d) ==
    LET rows == {k \in d.api_keys : k.user_id = user_id /\ k.service = service}
    IN  IF rows # {}
        THEN LET user_key == CHOOSE k \in rows : TRUE
                 plain == decrypt_api_key(user_key)
             IN  IF plain = Raised THEN None ELSE plain
        ELSE IF user_id \notin DOMAIN d.users THEN None
        ELSE LET user == d.users[user_id] IN
             IF user_id = 1 \/ user.username = "admin"
             THEN AdminKey(d.env, service)
             ELSE IF ~user.has_created_at THEN AdminKey(d.env, service)
             ELSE IF user.age < TRIAL_DAYS THEN AdminKey(d.env, service)
             ELSE None

---------------------------------------------------------------------------
(* The fan-out coordinator, translate_to_all_languages.                    *)

Translators == <<"DeepL", "PONS", "Google", "Lingva">>

\* ThreadPoolExecutor(max_workers=12)
max_workers == 12

\* a dict or list argument that may be None
NoneArg == [type |-> "NoneType", v |-> <<>>]
Dict(f) == [type |-> "dict", v |-> f]
List(q) == [type |-> "list", v |-> q]
\* d.get(k, True) on a dict argument
GetOrTrue(d, k) == IF k \in DOMAIN d.v THEN d.v[k] ELSE TRUE
\* "if d:" on a dict argument
NonEmpty(d) == d.type # "NoneType" /\ DOMAIN d.v # {}

\* faulty variant: only a missing or empty source language is defaulted
EffectiveSource_autoKept(source_lang) ==
    IF ~Truthy(source_lang) THEN "german" ELSE source_lang.v

\* lines 571-573
EffectiveSource(source_lang) ==
    IF ~Truthy(source_lang) \/ source_lang = Str("auto") THEN "german"
    ELSE source_lang.v

DefaultTargets == <<"spanish", "german", "polish", "english">>

\* faulty variant: an explicit target list is taken as given
EffectiveTargets_unfiltered(target_languages, source_lang) ==
    LET NotSource(lang) == lang # source_lang
    IN  IF target_languages.type = "NoneType"
        THEN SelectSeq(DefaultTargets, NotSource)
        ELSE target_languages.v

\* lines 577-581
EffectiveTargets(target_languages, source_lang) ==
    LET NotSource(lang) == lang # source_lang
    IN  IF target_languages.type = "NoneType"
        THEN SelectSeq(DefaultTargets, NotSource)
        ELSE SelectSeq(target_languages.v, NotSource)

\* lines 583-599
ResolveKey(user_id, service, d) ==
    IF user_id # 0 THEN get_api_key(user_id, service, d)
    ELSE AdminFallback(d.env, service)

\* faulty variant: a provider the map does not name is left out
EnabledTranslators_missingOff(enabled_services) ==
    LET On(name) == /\ name \in DOMAIN enabled_services.v
                    /\ enabled_services.v[name]
    IN  IF NonEmpty(enabled_services) THEN SelectSeq(Translators, On)
        ELSE Translators

\* lines 615-620
EnabledTranslators(enabled_services) ==
    LET On(name) == GetOrTrue(enabled_services, name)
    IN  IF NonEmpty(enabled_services) THEN SelectSeq(Translators, On)
        ELSE Translators

\* lines 622-627
ExplanationEnabled(explanation_services, name) ==
    IF NonEmpty(explanation_services) THEN GetOrTrue(explanation_services, name)
    ELSE TRUE

\* what the task of one future computes: the translator lambda or the
\* enrichment function on its arguments, against the endpoint's answers
RunTask(f, text, source_code, keys, n) ==
    CASE f.kind = "pons_def" ->
            get_pons_definition(text, source_code, keys.pons, n.pons_def)
      [] f.kind = "groq" ->
            get_groq_explanation(text, source_code, keys.groq, n.groq)
      [] f.name = "DeepL" ->
            translate_deepl(text, source_code, f.code, keys.deepl, n.DeepL[f.code])
      [] f.name = "PONS" ->
            translate_pons(text, source_code, f.code, keys.pons, n.PONS[f.code])
      [] f.name = "Google" ->
            translate_google(text, source_code, f.code, keys.google, n.Google[f.code])
      [] OTHER ->
            translate_lingva(text, source_code, f.code, n.Lingva[f.code])

Future(kind, lang, name, code) ==
    [kind |-> kind, lang |-> lang, name |-> name, code |-> code,
     status |-> "queued", out |-> None, calls |-> 0]

Indices(kind) == {i \in 1..Len(futures) : futures[i].kind = kind}
Running == {i \in 1..Len(futures) : futures[i].status = "running"}
Queued == {i \in 1..Len(futures) : futures[i].status = "queued"}
AllDone(is) == \A i \in is : futures[i].status = "done"

LocIdle ==
    [source_lang |-> "", source_code |-> "", targets |-> <<>>,
     keys |-> [deepl |-> None, pons |-> None, google |-> None, groq |-> None],
     lookups |-> [deepl |-> 0, pons |-> 0, google |-> 0, groq |-> 0],
     translators |-> <<>>, pons_on |-> FALSE, groq_on |-> FALSE,
     ti |-> 1, pi |-> 1]

ResultIdle ==
    [source_language |-> "", source_text |-> "", translations |-> <<>>,
     slots |-> <<>>]

\* no translate_to_all_languages call has been made
NoCall ==
    [text |-> "", source_lang |-> None, target_languages |-> NoneArg,
     enabled_services |-> NoneArg, explanation_services |-> NoneArg,
     user_id |-> 0]

HttpIdle ==
    [phase |-> "none", caller |-> "", text |-> <<>>, body |-> NoCall,
     status |-> 0]

\* str.strip() on a text given as its pieces, " " a run of whitespace
RECURSIVE LStrip(_)
LStrip(pieces) ==
    IF pieces # <<>> /\ Head(pieces) = " " THEN LStrip(Tail(pieces))
    ELSE pieces
RECURSIVE RStrip(_)
RStrip(pieces) ==
    IF pieces # <<>> /\ pieces[Len(pieces)] = " "
    THEN RStrip(SubSeq(pieces, 1, Len(pieces) - 1))
    ELSE pieces
RECURSIVE Joined(_)
Joined(pieces) ==
    IF pieces = <<>> THEN "" ELSE Head(pieces) \o Joined(Tail(pieces))
Strip(pieces) == Joined(RStrip(LStrip(pieces)))

\* get_current_user: the user row the session cookie names, if any
CurrentUser(caller, d) == {u \in DOMAIN d.users : d.users[u].username = caller}

\* POST /translate up to its call of translate_to_all_languages
translate ==
    /\ pc = "route"
    /\ http.phase = "received"
    /\ LET user == CurrentUser(http.caller, db)
           text == Strip(http.text)
       IN  IF user = {}
           THEN /\ http' = [http EXCEPT !.phase = "responded", !.status = 401]
                /\ pc' = "rejected"
                /\ req' = req
           ELSE IF text = ""
           THEN /\ http' = [http EXCEPT !.phase = "responded", !.status = 400]
                /\ pc' = "rejected"
                /\ req' = req
           ELSE /\ http' = [http EXCEPT !.phase = "calling"]
                /\ pc' = "call"
                /\ req' = [http.body EXCEPT
                              !.text = text,
                              !.user_id = CHOOSE u \in user : TRUE]
    /\ UNCHANGED <<glossreqs, keyreqs, lookup, probe, db, net, loc, futures, collected,
                   result>>

\* POST /translate after the call: the dict is the response, an exception
\* that left the call is a 500
Respond ==
    /\ http.phase = "calling"
    /\ pc \in {"returned", "raised"}
    /\ http' = [http EXCEPT !.phase = "responded",
                            !.status = IF pc = "returned" THEN 200 ELSE 500]
    /\ UNCHANGED <<glossreqs, keyreqs, lookup, probe, req, db, net, pc, loc, futures,
                   collected, result>>

\* a list element is written as the str it is; an element that is a JSON
\* array is written as its JSON text, and Python cannot hash it
JsonArray == "[\"english\"]"
Unhashable(elem) == elem = JsonArray

\* lines 571-627: languages, keys, the result skeleton, the enabled sets
Prepare ==
    /\ pc = "call"
    /\ LET source_lang == EffectiveSource(req.source_lang) IN
        /\ loc' = [source_lang |-> source_lang,
                   source_code |-> CodeOf(source_lang, "de"),
                   targets |-> EffectiveTargets(req.target_languages, source_lang),
                   keys |-> [s \in {"deepl", "pons", "google", "groq"} |->
                                ResolveKey(req.user_id, s, db)],
                   lookups |-> [s \in {"deepl", "pons", "google", "groq"} |->
                                   IF req.user_id # 0 THEN 1 ELSE 0],
                   translators |-> EnabledTranslators(req.enabled_services),
                   pons_on |-> ExplanationEnabled(req.explanation_services,
                                                  "PONS Definition"),
                   groq_on |-> ExplanationEnabled(req.explanation_services,
                                                  "Groq AI"),
                   ti |-> 1, pi |-> 1]
        /\ result' = [source_language |-> source_lang, source_text |-> req.text,
                      translations |-> <<>>, slots |-> <<>>]
    /\ pc' = "submit_pons"
    /\ UNCHANGED <<glossreqs, http, keyreqs, lookup, probe, req, db, net, futures, collected>>

\* lines 636-637
SubmitPons ==
    /\ pc = "submit_pons"
    /\ futures' = IF loc.pons_on
                  THEN Append(futures, Future("pons_def", "", "", ""))
                  ELSE futures
    /\ pc' = "submit_groq"
    /\ UNCHANGED <<glossreqs, http, keyreqs, lookup, probe, req, db, net, loc, collected, result>>

\* lines 638-639
SubmitGroq ==
    /\ pc = "submit_groq"
    /\ futures' = IF loc.groq_on
                  THEN Append(futures, Future("groq", "", "", ""))
                  ELSE futures
    /\ pc' = "submit"
    /\ UNCHANGED <<glossreqs, http, keyreqs, lookup, probe, req, db, net, loc, collected, result>>

\* result["translations"][target_lang] = {}
NewRow(translations, lang) ==
    [l \in DOMAIN translations \cup {lang} |->
        IF l = lang THEN <<>> ELSE translations[l]]

\* faulty variant: the keys are looked up again for every task submitted
SubmitTranslation_resolvesPerLanguage ==
    /\ pc = "submit"
    /\ IF loc.ti > Len(loc.targets)
       THEN /\ pc' = "collect"
            /\ UNCHANGED <<glossreqs, loc, futures, result>>
       ELSE IF Unhashable(loc.targets[loc.ti])
       THEN /\ pc' = "unwind"
            /\ UNCHANGED <<glossreqs, loc, futures, result>>
       ELSE LET target_lang == loc.targets[loc.ti]
                target_code == CodeOf(target_lang, "en")
                rows == IF loc.pi = 1
                        THEN NewRow(result.translations, target_lang)
                        ELSE result.translations
            IN  /\ result' = [result EXCEPT !.translations = rows]
                /\ IF loc.translators = <<>>
                   THEN /\ futures' = futures
                        /\ loc' = [loc EXCEPT !.ti = @ + 1]
                   ELSE /\ futures' = Append(futures,
                               Future("translate", target_lang,
                                      loc.translators[loc.pi], target_code))
                        /\ loc' =
                             LET again == [loc EXCEPT
                                    !.keys = [s \in DOMAIN loc.keys |->
                                        ResolveKey(req.user_id, s, db)],
                                    !.lookups = [s \in DOMAIN loc.lookups |->
                                        loc.lookups[s] + 1]]
                             IN  IF loc.pi = Len(loc.translators)
                                 THEN [again EXCEPT !.ti = @ + 1, !.pi = 1]
                                 ELSE [again EXCEPT !.pi = @ + 1]
                /\ pc' = pc
    /\ UNCHANGED <<glossreqs, http, keyreqs, lookup, probe, req, db, net, collected>>

\* lines 641-647: one executor.submit of the nested loops, or their end
SubmitTranslation ==
    /\ pc = "submit"
    /\ IF loc.ti > Len(loc.targets)
       THEN /\ pc' = "collect"
            /\ UNCHANGED <<glossreqs, loc, futures, result>>
       ELSE IF Unhashable(loc.targets[loc.ti])
       THEN /\ pc' = "unwind"
            /\ UNCHANGED <<glossreqs, loc, futures, result>>
       ELSE LET target_lang == loc.targets[loc.ti]
                target_code == CodeOf(target_lang, "en")
                rows == IF loc.pi = 1
                        THEN NewRow(result.translations, target_lang)
                        ELSE result.translations
            IN  /\ result' = [result EXCEPT !.translations = rows]
                /\ IF loc.translators = <<>>
                   THEN /\ futures' = futures
                        /\ loc' = [loc EXCEPT !.ti = @ + 1]
                   ELSE /\ futures' = Append(futures,
                               Future("translate", target_lang,
                                      loc.translators[loc.pi], target_code))
                        /\ loc' = IF loc.pi = Len(loc.translators)
                                  THEN [loc EXCEPT !.ti = @ + 1, !.pi = 1]
                                  ELSE [loc EXCEPT !.pi = @ + 1]
                /\ pc' = pc
    /\ UNCHANGED <<glossreqs, http, keyreqs, lookup, probe, req, db, net, collected>>

PoolOpen == pc \in {"submit_pons", "submit_groq", "submit", "collect",
                    "pons_result", "groq_result", "shutdown", "unwind"}

\* faulty variant: a thread is started for every work item
StartTask_unbounded ==
    /\ PoolOpen
    /\ Queued # {}
    /\ LET i == CHOOSE k \in Queued : \A j \in Queued : k <= j
       IN  futures' = [futures EXCEPT ![i].status = "running"]
    /\ UNCHANGED <<glossreqs, http, keyreqs, lookup, probe, req, db, net, pc, loc, collected, result>>

\* faulty variant: a worker thread ends after its first work item
StartTask_noReuse ==
    /\ PoolOpen
    /\ Queued # {}
    /\ Cardinality({i \in 1..Len(futures) : futures[i].status # "queued"})
           < max_workers
    /\ LET i == CHOOSE k \in Queued : \A j \in Queued : k <= j
       IN  futures' = [futures EXCEPT ![i].status = "running"]
    /\ UNCHANGED <<glossreqs, http, keyreqs, lookup, probe, req, db, net, pc, loc, collected, result>>

\* a worker thread takes the oldest work item off the queue
StartTask ==
    /\ PoolOpen
    /\ Queued # {}
    /\ Cardinality(Running) < max_workers
    /\ LET i == CHOOSE k \in Queued : \A j \in Queued : k <= j
       IN  futures' = [futures EXCEPT ![i].status = "running"]
    /\ UNCHANGED <<glossreqs, http, keyreqs, lookup, probe, req, db, net, pc, loc, collected, result>>

\* the tasks under way end in any order, or, when the run scripts the pace
\* of the endpoints, the one whose answer comes first
AnyOrder == <<>>
CanFinish(i) ==
    IF net.pace = AnyOrder THEN TRUE
    ELSE \A j \in Running : net.pace[i] <= net.pace[j]

\* a worker thread finishes its task and sets the future's result
FinishTask ==
    /\ PoolOpen
    /\ \E i \in Running :
        LET r == RunTask(futures[i], req.text, loc.source_code, loc.keys, net)
        IN  /\ CanFinish(i)
            /\ futures' = [futures EXCEPT ![i].status = "done",
                                           ![i].out = r.out,
                                           ![i].calls = r.calls]
    /\ UNCHANGED <<glossreqs, http, keyreqs, lookup, probe, req, db, net, pc, loc,
                   collected, result>>

\* faulty variant: the row is replaced by the new cell instead of extended
SetCell_replace(translations, lang, name, value) ==
    [translations EXCEPT ![lang] = [p \in {name} |-> value]]

\* faulty variant: the cell is chosen by arrival: the n-th result of a language
\* goes to the n-th translator
SetCell_byArrival(translations, lang, name, value) ==
    LET n == Cardinality(DOMAIN translations[lang]) + 1
        slot == IF n <= Len(loc.translators) THEN loc.translators[n] ELSE name
    IN  [translations EXCEPT ![lang] =
            [p \in DOMAIN translations[lang] \cup {slot} |->
                IF p = slot THEN value ELSE translations[lang][p]]]

\* result["translations"][target_lang][name] = translation
SetCell(translations, lang, name, value) ==
    [translations EXCEPT ![lang] =
        [p \in DOMAIN translations[lang] \cup {name} |->
            IF p = name THEN value ELSE translations[lang][p]]]

\* future.result() under try/except Exception
ResultOr(f, fallback) == IF f.out = Raised THEN fallback ELSE f.out

\* faulty variant: the loop is left at the first failed task
Collect_StopOnError ==
    /\ pc = "collect"
    /\ \E i \in Indices("translate") \ collected :
        /\ futures[i].status = "done"
        /\ result' = [result EXCEPT !.translations =
                         SetCell(@, futures[i].lang, futures[i].name,
                                 ResultOr(futures[i], ERROR))]
        /\ collected' = collected \cup {i}
        /\ pc' = IF futures[i].out = ERROR THEN "pons_result" ELSE pc
    /\ UNCHANGED <<glossreqs, http, keyreqs, lookup, probe, req, db, net, loc, futures>>

\* lines 649-655: one pass of the as_completed loop
Collect ==
    /\ pc = "collect"
    /\ \E i \in Indices("translate") \ collected :
        /\ futures[i].status = "done"
        /\ result' = [result EXCEPT !.translations =
                         SetCell(@, futures[i].lang, futures[i].name,
                                 ResultOr(futures[i], ERROR))]
        /\ collected' = collected \cup {i}
    /\ UNCHANGED <<glossreqs, http, keyreqs, lookup, probe, req, db, net, pc, loc, futures>>

\* faulty variant: the loop is left while results are outstanding
CollectEnd_Early ==
    /\ pc = "collect"
    /\ pc' = "pons_result"
    /\ UNCHANGED <<glossreqs, http, keyreqs, lookup, probe, req, db, net, loc, futures, collected, result>>

\* as_completed is exhausted
CollectEnd ==
    /\ pc = "collect"
    /\ Indices("translate") \subseteq collected
    /\ pc' = "pons_result"
    /\ UNCHANGED <<glossreqs, http, keyreqs, lookup, probe, req, db, net, loc, futures, collected, result>>

SetSlot(slots, key, value) ==
    [k \in DOMAIN slots \cup {key} |-> IF k = key THEN value ELSE slots[k]]

\* lines 657-664
PonsResult ==
    /\ pc = "pons_result"
    /\ AllDone(Indices("pons_def"))
    /\ LET value == IF Indices("pons_def") = {} THEN Str("")
                    ELSE ResultOr(futures[CHOOSE i \in Indices("pons_def") : TRUE],
                                  Str(""))
       IN  result' = [result EXCEPT !.slots = SetSlot(@, "ai_explanation", value)]
    /\ pc' = "groq_result"
    /\ UNCHANGED <<glossreqs, http, keyreqs, lookup, probe, req, db, net, loc, futures, collected>>

\* lines 666-673
GroqResult ==
    /\ pc = "groq_result"
    /\ AllDone(Indices("groq"))
    /\ LET value == IF Indices("groq") = {} THEN Str("")
                    ELSE ResultOr(futures[CHOOSE i \in Indices("groq") : TRUE],
                                  Str(""))
       IN  result' = [result EXCEPT !.slots = SetSlot(@, "groq_explanation", value)]
    /\ pc' = "shutdown"
    /\ UNCHANGED <<glossreqs, http, keyreqs, lookup, probe, req, db, net, loc, futures, collected>>

\* faulty variant: the source text is stored as a glossary entry of the user
\* before the result is returned
Return_savesEntry ==
    /\ pc = "shutdown"
    /\ AllDone(1..Len(futures))
    /\ pc' = "returned"
    /\ db' = [db EXCEPT !.glossary_entries =
                  @ \cup {[id |-> Cardinality(@) + 1, user_id |-> req.user_id,
                           glossary_id |-> 0, german |-> req.text,
                           english |-> "", learning_rate |-> 0,
                           total_learning_rate |-> 0, recent |-> TRUE]}]
    /\ UNCHANGED <<glossreqs, http, keyreqs, lookup, probe, req, net, loc, futures, collected, result>>

\* leaving the with block: executor.shutdown(wait=True), then return result
Return ==
    /\ pc = "shutdown"
    /\ AllDone(1..Len(futures))
    /\ pc' = "returned"
    /\ UNCHANGED <<glossreqs, http, keyreqs, lookup, probe, req, db, net, loc, futures, collected, result>>

\* an exception leaves the with block: executor.shutdown(wait=True), then
\* the exception goes on to the caller
Unwind ==
    /\ pc = "unwind"
    /\ AllDone(1..Len(futures))
    /\ pc' = "raised"
    /\ UNCHANGED <<glossreqs, http, keyreqs, lookup, probe, req, db, net, loc, futures,
                   collected, result>>

---------------------------------------------------------------------------
(* The key store: POST /user/api-keys and DELETE /user/api-keys/{service}. *)
(* A handler reads the table, then writes and commits; handlers of         *)
(* different worker processes interleave between the two.                  *)

\* faulty variant: a Groq key may be stored as well
valid_services_withGroq == {"deepl", "pons", "google", "groq"}

valid_services == {"deepl", "pons", "google"}

\* the user_api_keys rows of one user and service
RowsOf(d, user_id, service) ==
    {k \in d.api_keys : k.user_id = user_id /\ k.service = service}

\* query(...).first(): the id of a matching row, 0 for None
First(rows) == IF rows = {} THEN 0 ELSE (CHOOSE k \in rows : TRUE).id

\* the primary key the table gives a new row
NextId(rows) ==
    IF rows = {} THEN 1
    ELSE 1 + CHOOSE i \in {k.id : k \in rows} : \A k \in rows : k.id <= i

\* faulty variant: the table has no uq_user_service
Insert_unconstrained(rows, row) == rows \cup {row}

\* db.add and db.commit under uq_user_service: the INSERT of a second row
\* for a user and service fails and leaves the table as it was
Insert(rows, row) ==
    IF \E k \in rows : k.user_id = row.user_id /\ k.service = row.service
    THEN rows
    ELSE rows \cup {row}

KeyRequest(op, caller, service, api_key) ==
    [op |-> op, caller |-> caller, service |-> service, api_key |-> api_key,
     phase |-> "received", user_id |-> 0, plain |-> "", existing |-> 0,
     status |-> 0]

Answered(r, status) == [r EXCEPT !.phase = "responded", !.status = status]

\* save_user_api_key, lines 512-529: the checks and the query
SaveQuery(i) ==
    /\ keyreqs[i].op = "save"
    /\ keyreqs[i].phase = "received"
    /\ LET r == keyreqs[i]
           user == CurrentUser(r.caller, db)
           plain == Strip(r.api_key)
       IN  keyreqs' =
             [keyreqs EXCEPT ![i] =
                IF user = {} THEN Answered(r, 401)
                ELSE IF r.service \notin valid_services THEN Answered(r, 400)
                ELSE IF plain = "" THEN Answered(r, 400)
                ELSE LET uid == CHOOSE u \in user : TRUE
                     IN  [r EXCEPT !.phase = "queried", !.user_id = uid,
                                   !.plain = plain,
                                   !.existing =
                                       First(RowsOf(db, uid, r.service))]]
    /\ UNCHANGED <<glossreqs, http, lookup, probe, req, db, net, pc, loc, futures,
                   collected, result>>

\* save_user_api_key, lines 531-543: the write and the commit.  An UPDATE
\* of a row that is gone and an INSERT that breaks uq_user_service raise,
\* and the request ends as a 500
SaveCommit(i) ==
    /\ keyreqs[i].op = "save"
    /\ keyreqs[i].phase = "queried"
    /\ LET r == keyreqs[i]
           rows == db.api_keys
           updated == {IF k.id = r.existing
                       THEN [k EXCEPT !.plain = r.plain, !.ok = TRUE]
                       ELSE k : k \in rows}
           inserted == Insert(rows, [id |-> NextId(rows), user_id |-> r.user_id,
                                     service |-> r.service, plain |-> r.plain,
                                     ok |-> TRUE])
           written == IF r.existing # 0 THEN updated ELSE inserted
           failed == IF r.existing # 0
                     THEN \A k \in rows : k.id # r.existing
                     ELSE inserted = rows
       IN  /\ db' = [db EXCEPT !.api_keys = written]
           /\ keyreqs' = [keyreqs EXCEPT
                             ![i] = Answered(r, IF failed THEN 500 ELSE 200)]
    /\ UNCHANGED <<glossreqs, http, lookup, probe, req, net, pc, loc, futures, collected,
                   result>>

\* delete_user_api_key, lines 553-560
DeleteQuery(i) ==
    /\ keyreqs[i].op = "delete"
    /\ keyreqs[i].phase = "received"
    /\ LET r == keyreqs[i]
           user == CurrentUser(r.caller, db)
       IN  keyreqs' =
             [keyreqs EXCEPT ![i] =
                IF user = {} THEN Answered(r, 401)
                ELSE LET uid == CHOOSE u \in user : TRUE
                         key == First(RowsOf(db, uid, r.service))
                     IN  IF key = 0 THEN Answered(r, 200)
                         ELSE [r EXCEPT !.phase = "queried", !.user_id = uid,
                                        !.existing = key]]
    /\ UNCHANGED <<glossreqs, http, lookup, probe, req, db, net, pc, loc, futures,
                   collected, result>>

\* delete_user_api_key, lines 562-566
DeleteCommit(i) ==
    /\ keyreqs[i].op = "delete"
    /\ keyreqs[i].phase = "queried"
    /\ db' = [db EXCEPT !.api_keys =
                 {k \in @ : k.id # keyreqs[i].existing}]
    /\ keyreqs' = [keyreqs EXCEPT ![i] = Answered(@, 200)]
    /\ UNCHANGED <<glossreqs, http, lookup, probe, req, net, pc, loc, futures, collected,
                   result>>

---------------------------------------------------------------------------
(* Inputs.                                                                 *)

\* the codes the explored requests resolve to
Codes == {LANGUAGE_CODES[l] : l \in {"german", "english", "spanish", "polish"}}

\* storage and deployment: the admin, a user inside the trial window with
\* a PONS key of her own, a user past it with a Google key of his own and a
\* DeepL key that no longer decrypts, a user whose created_at is NULL, and
\* a user on the first day after the trial window
Db ==
    [users |-> (1 :> [username |-> "admin", has_created_at |-> TRUE, age |-> 100])
            @@ (2 :> [username |-> "anna", has_created_at |-> TRUE, age |-> 3])
            @@ (3 :> [username |-> "bob", has_created_at |-> TRUE, age |-> 30])
            @@ (4 :> [username |-> "carl", has_created_at |-> FALSE, age |-> 0])
            @@ (5 :> [username |-> "dora", has_created_at |-> TRUE, age |-> 7]),
     api_keys |-> {[id |-> 1, user_id |-> 2, service |-> "pons",
                    plain |-> "anna-pons", ok |-> TRUE],
                   [id |-> 2, user_id |-> 3, service |-> "google",
                    plain |-> "bob-google", ok |-> TRUE],
                   [id |-> 3, user_id |-> 3, service |-> "deepl",
                    plain |-> "bob-deepl", ok |-> FALSE]},
     glossaries |-> {[id |-> 1, user_id |-> 2, name |-> "Hauptglossar",
                      is_default |-> TRUE],
                     [id |-> 2, user_id |-> 2, name |-> "Reise",
                      is_default |-> FALSE]},
     glossary_entries |-> {[id |-> 1, user_id |-> 2, glossary_id |-> 1,
                            german |-> "Haus", english |-> "house",
                            learning_rate |-> 0, total_learning_rate |-> 0,
                            recent |-> TRUE],
                           [id |-> 2, user_id |-> 3, glossary_id |-> 0,
                            german |-> "Hund", english |-> "dog",
                            learning_rate |-> 0, total_learning_rate |-> 0,
                            recent |-> FALSE]},
     env |-> [deepl |-> "adm-deepl", pons |-> "adm-pons", google |-> "",
              groq |-> "adm-groq", gemini |-> ""]]

\* an endpoint that answers every target code alike, but for the word
Always(R(_)) == [c \in Codes |-> R(WordFor(c))]
Good(word) == Http(200, "text", word)
TimesOut(word) == Timeout
Malformed(word) == Http(200, "notjson", "")
NullField(word) == Http(200, "null", "")
NumberField(word) == Http(200, "number", "")
Forbidden(word) == Http(403, "empty", "")
Throttled(word) == Http(429, "empty", "")
Quota(word) == Http(456, "empty", "")
LingvaGood(word) == <<Good(word), Good(word), Good(word)>>
LingvaThird(word) == <<ConnError, Http(500, "empty", ""), Good(word)>>
LingvaThrottled(word) == <<Malformed(word), Throttled(word), Good(word)>>
LingvaDown(word) == <<Timeout, NullField(word), Http(200, "empty", "")>>

NetAllGood ==
    [DeepL |-> Always(Good), PONS |-> Always(Good), Google |-> Always(Good),
     Lingva |-> Always(LingvaGood),
     pons_def |-> Good("das Haus"), groq |-> Good("Ein Haus ist ein Gebaeude."),
     pace |-> AnyOrder]

\* one provider times out, one answers a malformed body, one succeeds
NetPartial ==
    [DeepL |-> Always(TimesOut), PONS |-> Always(Malformed), Google |-> Always(Good),
     Lingva |-> Always(LingvaThird),
     pons_def |-> Timeout, groq |-> Http(429, "empty", ""), pace |-> AnyOrder]

\* throttling, for PONS on Spanish only
NetThrottled ==
    [DeepL |-> Always(Quota),
     PONS |-> [c \in Codes |-> IF c = "es" THEN Throttled("") ELSE Good(WordFor(c))],
     Google |-> Always(Throttled), Lingva |-> Always(LingvaThrottled),
     pons_def |-> Http(500, "empty", ""), groq |-> Http(200, "number", ""),
     pace |-> AnyOrder]

NetOdd ==
    [DeepL |-> Always(NullField), PONS |-> Always(NumberField),
     Google |-> Always(Forbidden), Lingva |-> Always(LingvaDown),
     pons_def |-> Http(200, "notjson", ""), groq |-> Http(200, "empty", ""),
     pace |-> AnyOrder]

\* no request is running
NetUnused == [DeepL |-> <<>>, PONS |-> <<>>, Google |-> <<>>, Lingva |-> <<>>,
              pons_def |-> Timeout, groq |-> Timeout, pace |-> AnyOrder]

NetScenarios == {NetAllGood, NetPartial, NetThrottled, NetOdd}

\* longest explicit target list, and most futures of one explored request
MaxTargets == 2
MaxTasks == 6

Sources == {None, Str(""), Str("auto"), Str("german"), Str("english"),
            Str("klingon")}
TargetNames == {"german", "english", "klingon"}
TargetLists ==
    {NoneArg} \cup
    {List(q) : q \in UNION {[1..n -> TargetNames] : n \in 0..MaxTargets}}

Off(names) == [n \in names |-> FALSE]
EnabledOptions ==
    {NoneArg, Dict(<<>>),
     Dict(Off({"Google", "Lingva"})),
     Dict(("DeepL" :> TRUE) @@ Off({"PONS", "Google", "Lingva"})),
     Dict(Off({"DeepL", "PONS", "Google"})),
     Dict(("PONS" :> TRUE) @@ Off({"DeepL", "Lingva"})),
     Dict(Off({"DeepL", "PONS", "Google", "Lingva"}))}
NoExplanations == Dict(Off({"PONS Definition", "Groq AI"}))
ExplanationOptions ==
    {NoneArg, NoExplanations, Dict(Off({"Groq AI"})),
     Dict(("Groq AI" :> TRUE) @@ Off({"PONS Definition"}))}

Request(source, targets, enabled, explanations, user_id) ==
    [text |-> "Haus", source_lang |-> source, target_languages |-> targets,
     enabled_services |-> enabled, explanation_services |-> explanations,
     user_id |-> user_id]

\* the futures a request submits
TaskCount(r) ==
    Len(EffectiveTargets(r.target_languages, EffectiveSource(r.source_lang)))
        * Len(EnabledTranslators(r.enabled_services))
      + (IF ExplanationEnabled(r.explanation_services, "PONS Definition")
         THEN 1 ELSE 0)
      + (IF ExplanationEnabled(r.explanation_services, "Groq AI") THEN 1 ELSE 0)

\* requests that vary the languages, the providers, the enrichments
LanguageRuns ==
    {[req |-> Request(s, t, Dict(Off({"PONS", "Google", "Lingva"})),
                      NoExplanations, u),
      net |-> NetAllGood] : s \in Sources, t \in TargetLists, u \in {2, 3}}
\* names outside the registry, whose default code meets the other side's
UnknownNameRuns ==
    {[req |-> Request(Str(s), List(<<t>>), NoneArg, NoExplanations, u), net |-> n] :
        s \in {"klingon", "english", "german"},
        t \in {"german", "klingon", "elvish"},
        u \in {2, 3}, n \in NetScenarios}
ProviderRuns ==
    {[req |-> Request(Str("german"), List(t), e, NoExplanations, u), net |-> n] :
        t \in {<<"english">>, <<"english", "spanish">>},
        e \in EnabledOptions, u \in {1, 2, 3}, n \in NetScenarios}
ExplanationRuns ==
    {[req |-> Request(Str("german"), List(<<"english">>), e, x, u), net |-> n] :
        e \in {NoneArg, Dict(Off({"PONS", "Google", "Lingva"}))},
        x \in ExplanationOptions, u \in {0, 1, 2, 3}, n \in NetScenarios}
\* every answer of the two enrichment endpoints, with and without a key
EnrichmentRuns ==
    {[req |-> Request(Str("german"), List(<<"english">>),
                      Dict(Off({"PONS", "Google", "Lingva"})), NoneArg, u),
      net |-> [NetAllGood EXCEPT !.pons_def = a, !.groq = b]] :
        u \in {1, 3}, a \in Responses("das Haus"),
        b \in Responses("Ein Haus ist ein Gebaeude.")}
\* users with and without a claim to the deployment's keys
CredentialRuns ==
    {[req |-> Request(Str(s), List(<<"english">>), NoneArg, x, u),
      net |-> NetAllGood] :
        s \in {"german", "english"}, x \in {NoneArg, NoExplanations},
        u \in {4, 5, 9}}
Runs ==
    {r \in LanguageRuns \cup UnknownNameRuns \cup ProviderRuns
            \cup ExplanationRuns \cup EnrichmentRuns \cup CredentialRuns :
        TaskCount(r.req) <= MaxTasks}

\* POST /translate: callers with and without a session, texts that are
\* empty, blank or padded, a target list with an element that is an array
Callers == {"", "ghost", "anna", "bob"}
Texts == {<<>>, <<" ">>, <<"Haus">>, <<" ", "Haus", " ">>}
RouteRuns ==
    {[http |-> [phase |-> "received", caller |-> c, text |-> t,
                body |-> Request(Str("german"), List(q),
                                 Dict(Off({"PONS", "Lingva"})), x, 0),
                status |-> 0],
      net |-> n] :
        c \in Callers, t \in Texts,
        q \in {<<"english">>, <<"english", JsonArray>>, <<JsonArray>>},
        x \in {NoneArg, NoExplanations},
        n \in {NetAllGood, NetPartial, NetOdd}}

KeyreqsIdle == <<>>
GlossreqsIdle == <<>>
LookupIdle == [called |-> FALSE, user_id |-> 0, service |-> "", out |-> None]

ProbeIdle ==
    [phase |-> "idle", name |-> "", text |-> "", source |-> "", target |-> "",
     api_key |-> None, resps |-> <<>>, out |-> None, calls |-> 0]

Init ==
    /\ \/ \E r \in Runs :
            req = r.req /\ net = r.net /\ http = HttpIdle /\ pc = "call"
       \/ \E r \in RouteRuns :
            req = NoCall /\ net = r.net /\ http = r.http /\ pc = "route"
    /\ db = Db
    /\ keyreqs = KeyreqsIdle
    /\ glossreqs = GlossreqsIdle
    /\ lookup = LookupIdle
    /\ probe = ProbeIdle
    /\ loc = LocIdle
    /\ futures = <<>>
    /\ collected = {}
    /\ result = ResultIdle

Next ==
    \/ translate
    \/ Respond
    \/ Unwind
    \/ Prepare
    \/ SubmitPons
    \/ SubmitGroq
    \/ SubmitTranslation
    \/ StartTask
    \/ FinishTask
    \/ Collect
    \/ CollectEnd
    \/ PonsResult
    \/ GroqResult
    \/ Return

Spec == Init /\ [][Next]_vars

---------------------------------------------------------------------------
(* One adapter called directly, on every argument and every answer of its  *)
(* endpoint.                                                               *)

AdapterNames == {"DeepL", "PONS", "Google", "Lingva"}
ProbeKeys == {None, Str(""), Str("key")}

ProbeInputs ==
    {[phase |-> "args", name |-> n, text |-> "Haus", source |-> s, target |-> t,
      api_key |-> k, resps |-> r, out |-> Str(""), calls |-> 0] :
        n \in AdapterNames \ {"Lingva"}, s \in {"de", "en"}, t \in {"de", "en", "es"},
        k \in ProbeKeys, r \in {<<a>> : a \in Responses("house")}}
    \cup
    {[phase |-> "args", name |-> "Lingva", text |-> "Haus", source |-> s,
      target |-> t, api_key |-> None, resps |-> r, out |-> Str(""), calls |-> 0] :
        s \in {"de", "en"}, t \in {"de", "en", "es"},
        r \in [1..LingvaInstances -> Responses("house")]}

CallAdapter(p) ==
    CASE p.name = "DeepL" ->
            translate_deepl(p.text, p.source, p.target, p.api_key, p.resps[1])
      [] p.name = "PONS" ->
            translate_pons(p.text, p.source, p.target, p.api_key, p.resps[1])
      [] p.name = "Google" ->
            translate_google(p.text, p.source, p.target, p.api_key, p.resps[1])
      [] OTHER ->
            translate_lingva(p.text, p.source, p.target, p.resps)

AdapterCall ==
    /\ probe.phase = "args"
    /\ LET r == CallAdapter(probe)
       IN  probe' = [probe EXCEPT !.phase = IF r.out = Raised THEN "raised"
                                            ELSE "returned",
                                  !.out = r.out, !.calls = r.calls]
    /\ UNCHANGED <<glossreqs, http, keyreqs, lookup, req, db, net, pc, loc, futures,
                   collected, result>>

InitAdapter ==
    /\ http = HttpIdle
    /\ keyreqs = KeyreqsIdle
    /\ glossreqs = GlossreqsIdle
    /\ lookup = LookupIdle
    /\ probe \in ProbeInputs
    /\ req = Request(None, NoneArg, NoneArg, NoneArg, 0)
    /\ db = Db
    /\ net = NetUnused
    /\ pc = "idle"
    /\ loc = LocIdle
    /\ futures = <<>>
    /\ collected = {}
    /\ result = ResultIdle

NextAdapter == AdapterCall

SpecAdapter == InitAdapter /\ [][NextAdapter]_vars

---------------------------------------------------------------------------
(* One call that submits more tasks than the pool has workers: a target    *)
(* list of eleven names, three of them outside the registry, one provider  *)
(* and both enrichments.                                                   *)

PoolTargets ==
    <<"english", "spanish", "polish", "french", "italian", "portuguese",
      "dutch", "russian", "klingon", "elvish", "dothraki">>

PoolCodes == {LANGUAGE_CODES[l] : l \in DOMAIN LANGUAGE_CODES}

\* DeepL answers most languages, throttles Dutch and times out on Russian
NetPool ==
    [DeepL |-> [c \in PoolCodes |->
                   CASE c = "nl" -> Http(429, "empty", "")
                     [] c = "ru" -> Timeout
                     [] OTHER -> Good(WordFor(c))],
     PONS |-> <<>>, Google |-> <<>>, Lingva |-> <<>>,
     pons_def |-> Good("das Haus"), groq |-> Http(429, "empty", ""),
     pace |-> AnyOrder]

\* the calls the request makes: two enrichments and one per target
PoolCalls == 2 + Len(PoolTargets)

\* the order in which the endpoints answer the calls that are under way:
\* as submitted; the two enrichments after every translation; the first
\* translation after every other call
PoolPaces ==
    {[i \in 1..PoolCalls |-> i],
     [i \in 1..PoolCalls |-> IF i <= 2 THEN PoolCalls + i ELSE i],
     [i \in 1..PoolCalls |-> IF i = 3 THEN PoolCalls + i ELSE i]}

PoolRuns ==
    {[req |-> Request(Str("german"), List(PoolTargets),
                      Dict(Off({"PONS", "Google", "Lingva"})), NoneArg, u),
      net |-> [NetPool EXCEPT !.pace = p]] : u \in {1}, p \in PoolPaces}

InitPool ==
    /\ \E r \in PoolRuns : req = r.req /\ net = r.net
    /\ http = HttpIdle
    /\ keyreqs = KeyreqsIdle
    /\ glossreqs = GlossreqsIdle
    /\ lookup = LookupIdle
    /\ probe = ProbeIdle
    /\ db = Db
    /\ pc = "call"
    /\ loc = LocIdle
    /\ futures = <<>>
    /\ collected = {}
    /\ result = ResultIdle

\* the steps of the calling thread
MainThread ==
    \/ Prepare
    \/ SubmitPons
    \/ SubmitGroq
    \/ SubmitTranslation
    \/ Collect
    \/ CollectEnd
    \/ PonsResult
    \/ GroqResult
    \/ Return

NextPool ==
    \/ MainThread
    \/ StartTask
    \/ FinishTask

SpecPool == InitPool /\ [][NextPool]_vars

\* the calling thread goes on when it can, an idle worker takes the next
\* queued task, and every task that was started comes to its end
FairPool ==
    /\ SpecPool
    /\ WF_vars(MainThread)
    /\ WF_vars(StartTask)
    /\ WF_vars(FinishTask)

---------------------------------------------------------------------------
(* The key store under save and delete requests, and get_api_key called    *)
(* on what they leave behind.                                              *)

\* most key-store requests of one run
MaxKeyRequests == 3

KeyRequestInputs ==
    {KeyRequest("save", "anna", "pons", <<" ", "k2", " ">>),
     KeyRequest("save", "anna", "pons", <<"k4">>),
     KeyRequest("save", "admin", "pons", <<"k3">>),
     KeyRequest("save", "bob", "groq", <<"k1">>),
     KeyRequest("save", "bob", "google", <<" ">>),
     KeyRequest("save", "", "deepl", <<"k1">>),
     KeyRequest("delete", "anna", "pons", <<>>),
     KeyRequest("delete", "bob", "deepl", <<>>)}

KeyRuns == UNION {[1..n -> KeyRequestInputs] : n \in 0..MaxKeyRequests}

LookupUsers == {1, 2, 3, 4, 5, 9}
LookupServices == {"deepl", "pons", "google", "groq"}

\* a direct get_api_key call, once the requests in flight are answered
Lookup ==
    /\ ~lookup.called
    /\ \A i \in DOMAIN keyreqs : keyreqs[i].phase = "responded"
    /\ \E u \in LookupUsers, s \in LookupServices :
          lookup' = [called |-> TRUE, user_id |-> u, service |-> s,
                     out |-> get_api_key(u, s, db)]
    /\ UNCHANGED <<glossreqs, http, keyreqs, probe, req, db, net, pc, loc, futures,
                   collected, result>>

\* the table after the administrator stored a DeepL key and the process
\* came up again with a newly generated ENCRYPTION_KEY: no stored token
\* decrypts any more
DbRekeyed ==
    [Db EXCEPT !.api_keys =
        {[k EXCEPT !.ok = FALSE] :
            k \in Db.api_keys \cup {[id |-> 4, user_id |-> 1, service |-> "deepl",
                                      plain |-> "admin-deepl", ok |-> TRUE]}}]

InitKeys ==
    /\ http = HttpIdle
    /\ keyreqs \in KeyRuns
    /\ glossreqs = GlossreqsIdle
    /\ lookup = LookupIdle
    /\ probe = ProbeIdle
    /\ req = NoCall
    /\ db \in {Db, DbRekeyed}
    /\ net = NetUnused
    /\ pc = "idle"
    /\ loc = LocIdle
    /\ futures = <<>>
    /\ collected = {}
    /\ result = ResultIdle

NextKeys ==
    \/ \E i \in DOMAIN keyreqs : SaveQuery(i)
    \/ \E i \in DOMAIN keyreqs : SaveCommit(i)
    \/ \E i \in DOMAIN keyreqs : DeleteQuery(i)
    \/ \E i \in DOMAIN keyreqs : DeleteCommit(i)
    \/ Lookup

SpecKeys == InitKeys /\ [][NextKeys]_vars

---------------------------------------------------------------------------
(* Properties of the fan-out, stated from the request alone.               *)

Returned == pc = "returned"

ExpectedSource ==
    IF req.source_lang \in {None, Str(""), Str("auto")} THEN "german"
    ELSE req.source_lang.v

ExpectedTargetSet ==
    (IF req.target_languages.type = "NoneType"
     THEN {"spanish", "german", "polish", "english"}
     ELSE {req.target_languages.v[i] : i \in DOMAIN req.target_languages.v})
        \ {ExpectedSource}

ExpectedProviders ==
    LET e == req.enabled_services
    IN  IF e.type = "NoneType" \/ DOMAIN e.v = {} THEN AdapterNames
        ELSE {p \in AdapterNames : p \notin DOMAIN e.v \/ e.v[p]}

Slots == {"ai_explanation", "groq_explanation"}

HasCell(l, p) ==
    l \in DOMAIN result.translations /\ p \in DOMAIN result.translations[l]

Cells ==
    UNION {{<<l, p>> : p \in DOMAIN result.translations[l]} :
              l \in DOMAIN result.translations}

\* C1: when the call returns, the keys of result["translations"] are the
\* effective targets (the explicit list, or the default four, without the
\* effective source), and the effective source is never a key.
C1_TargetKeys ==
    /\ Returned => DOMAIN result.translations = ExpectedTargetSet
    /\ pc # "call" => ExpectedSource \notin DOMAIN result.translations

\* C1 witness: a returned request whose explicit target list named the source
C1_SourceRequested ==
    /\ Returned
    /\ req.target_languages.type = "list"
    /\ \E i \in DOMAIN req.target_languages.v :
          req.target_languages.v[i] = ExpectedSource
    /\ DOMAIN result.translations # {}

\* C2: when the call returns, the populated cells are exactly the pairs of
\* an effective target and an enabled provider, |targets| x |providers| of
\* them, and both enrichment slots are set.
C2_AllCells ==
    Returned =>
        /\ Cells = ExpectedTargetSet \X ExpectedProviders
        /\ Cardinality(Cells)
             = Cardinality(ExpectedTargetSet) * Cardinality(ExpectedProviders)
        /\ DOMAIN result.slots = Slots

\* C2 witness: a returned matrix of at least two languages and two providers
C2_SeveralCells ==
    /\ Returned
    /\ Cardinality(ExpectedTargetSet) >= 2
    /\ Cardinality(ExpectedProviders) >= 2
    /\ Cardinality(Cells) >= 4

\* the endpoint's answer makes the one request of a task fail
AnswerFails(resp) ==
    \/ resp.kind # "http"
    \/ resp.status = 200 /\ resp.body \in {"notjson", "wrongshape"}

\* the task of future f sends its request and the request fails
TaskFails(f) ==
    /\ loc.source_code # f.code
    /\ CASE f.name = "DeepL" ->
                Truthy(loc.keys.deepl) /\ AnswerFails(net.DeepL[f.code])
         [] f.name = "PONS" ->
                Truthy(loc.keys.pons) /\ AnswerFails(net.PONS[f.code])
         [] f.name = "Google" -> AnswerFails(net.Google[f.code])
         [] OTHER -> \A i \in 1..LingvaInstances :
                        AnswerFails(net.Lingva[f.code][i])

C4_NoEarlyReturn ==
    Returned =>
        /\ Queued = {} /\ Running = {}
        /\ Indices("translate") \subseteq collected
        /\ \A i \in Indices("translate") : HasCell(futures[i].lang, futures[i].name)
        /\ DOMAIN result.slots = Slots

\* C4 witness: a returned call that had dispatched translation and
\* enrichment tasks
C4_ReturnedAfterTasks ==
    /\ Returned
    /\ Indices("translate") # {}
    /\ Indices("pons_def") # {} /\ Indices("groq") # {}

ExpectedKeys ==
    [s \in {"deepl", "pons", "google", "groq"} |-> ResolveKey(req.user_id, s, db)]

ExpectedCell(l, p) ==
    ResultOr(RunTask([kind |-> "translate", name |-> p, code |-> CodeOf(l, "en")],
                     req.text, CodeOf(ExpectedSource, "de"), ExpectedKeys, net),
             ERROR)

ExpectedSlot(k) ==
    LET kind == IF k = "ai_explanation" THEN "pons_def" ELSE "groq"
        name == IF k = "ai_explanation" THEN "PONS Definition" ELSE "Groq AI"
        e == req.explanation_services
        on == e.type = "NoneType" \/ name \notin DOMAIN e.v \/ e.v[name]
    IN  IF on
        THEN ResultOr(RunTask([kind |-> kind], req.text,
                              CodeOf(ExpectedSource, "de"), ExpectedKeys, net),
                      Str(""))
        ELSE Str("")

\* the matrix as a function of the request, the keys and the endpoints
ExpectedMatrix ==
    [source_language |-> ExpectedSource,
     source_text |-> req.text,
     translations |-> [l \in ExpectedTargetSet |->
                          [p \in ExpectedProviders |-> ExpectedCell(l, p)]],
     slots |-> [k \in Slots |-> ExpectedSlot(k)]]

\* C5: with endpoints whose answer depends on the arguments only, the
\* returned matrix is one function of the request: the same for every order
\* in which the tasks start, finish and are collected, and so for every
\* repetition of the request.
C5_OrderIndependent == Returned => result = ExpectedMatrix

\* C5 witness: a later future was collected while an earlier one of the
\* same request had not finished
C5_OutOfOrder ==
    /\ pc = "collect"
    /\ \E i, j \in Indices("translate") :
          /\ i < j
          /\ futures[i].status # "done"
          /\ j \in collected

---------------------------------------------------------------------------
(* Properties of the adapters.                                             *)

Called == probe.phase # "args"

\* C6: every call of a translation adapter returns, without raising, a str:
\* the translated text or one of "[No API Key]", "[Limit]", "[Error]".
C6_FourOutcomes ==
    Called => probe.phase = "returned" /\ probe.out.type = "str"

\* the key a translator future's provider works with
KeyOf(f) ==
    CASE f.name = "DeepL" -> loc.keys.deepl
      [] f.name = "PONS" -> loc.keys.pons
      [] f.name = "Google" -> loc.keys.google
      [] OTHER -> None

DoneTranslations ==
    {i \in Indices("translate") : futures[i].status = "done"}

\* C7: a task whose source code equals its target code yields the original
\* text without sending a request, with or without a key, and the returned
\* matrix holds the original text in its cell.
C7_IdentityShortCircuit ==
    \A i \in DoneTranslations :
        LET f == futures[i] IN
        loc.source_code = f.code =>
            /\ f.out = Str(req.text)
            /\ f.calls = 0
            /\ Returned => result.translations[f.lang][f.name] = Str(req.text)

\* C7 witness: PONS without a key, source and target code equal, and the
\* cell of the returned matrix holds the original text
C7_IdentityWithoutKey ==
    /\ Returned
    /\ \E i \in DoneTranslations :
          /\ futures[i].name = "PONS"
          /\ loc.source_code = futures[i].code
          /\ ~Truthy(loc.keys.pons)
          /\ result.translations[futures[i].lang]["PONS"] = Str("Haus")

NeedsKey(f) == f.name \in {"DeepL", "PONS"}

\* C8 as claimed: every DeepL or PONS task without a key yields
\* "[No API Key]" and sends no request.
C8_NoCredentialAlways ==
    \A i \in DoneTranslations :
        LET f == futures[i] IN
        NeedsKey(f) /\ ~Truthy(KeyOf(f)) =>
            f.out = NO_API_KEY /\ f.calls = 0

\* C8 as amended: every DeepL or PONS task without a key whose source code
\* differs from its target code yields "[No API Key]" and sends no request;
\* the tasks of Google and Lingva compute what they would compute with
\* DeepL and PONS keys present.
C8_NoCredentialUnlessIdentity ==
    \A i \in DoneTranslations :
        LET f == futures[i] IN
        /\ NeedsKey(f) /\ ~Truthy(KeyOf(f)) /\ loc.source_code # f.code =>
              /\ f.out = NO_API_KEY
              /\ f.calls = 0
              /\ Returned => result.translations[f.lang][f.name] = NO_API_KEY
        /\ ~NeedsKey(f) =>
              f.out = RunTask(f, req.text, loc.source_code,
                              [loc.keys EXCEPT !.deepl = Str("key"),
                                               !.pons = Str("key")], net).out

\* C8 witness: a returned matrix with a "[No API Key]" DeepL cell beside a
\* Google cell that holds a translation
C8_NoKeyCell ==
    /\ Returned
    /\ ~Truthy(loc.keys.deepl)
    /\ HasCell("english", "DeepL") /\ HasCell("english", "Google")
    /\ result.translations["english"]["DeepL"] = NO_API_KEY
    /\ result.translations["english"]["Google"] = Str("house")

\* the status is the adapter's rate-limit signal
RateLimitStatus(name, status) ==
    status = 429 \/ (name = "DeepL" /\ status = 456)

\* C9: an adapter that receives a 429 answer (DeepL: 429 or 456) to a
\* request it sent returns "[Limit]".
C9_RateLimited ==
    Called =>
        \A i \in 1..probe.calls :
            (/\ probe.resps[i].kind = "http"
             /\ RateLimitStatus(probe.name, probe.resps[i].status))
                => probe.out = LIMIT

\* C9 witness: DeepL answered 456 and the adapter returned "[Limit]"
C9_DeeplQuota ==
    /\ probe.phase = "returned"
    /\ probe.name = "DeepL"
    /\ probe.calls = 1
    /\ probe.resps[1].kind = "http" /\ probe.resps[1].status = 456
    /\ probe.out = LIMIT

\* an answer that is a failure in the claim's words: no connection, a
\* timeout, a 200 body that is not JSON, has the wrong shape or holds no
\* translation, a status other than 200 and the rate-limit codes
FailureAnswer(name, resp) ==
    \/ resp.kind # "http"
    \/ resp.status = 200 /\ resp.body \in {"notjson", "wrongshape", "empty"}
    \/ resp.status # 200 /\ ~RateLimitStatus(name, resp.status)

\* C10 as claimed: an adapter that receives a failure answer to a request
\* it sent returns "[Error]".
C10_AnyFailureIsError ==
    Called =>
        \A i \in 1..probe.calls :
            FailureAnswer(probe.name, probe.resps[i]) => probe.out = ERROR

\* the failure answers on which a one-endpoint adapter returns "[Error]"
ErrorAnswer(name, api_key, resp) ==
    \/ resp.kind # "http"
    \/ resp.status = 200 /\ resp.body \in {"notjson", "wrongshape", "empty"}
    \/ resp.status = 200 /\ resp.body \in {"null", "number"} /\ name = "PONS"
    \/ resp.status = 200 /\ resp.body = "number" /\ name = "Google"
          /\ ~Truthy(api_key)
    \/ /\ resp.status # 200
       /\ ~RateLimitStatus(name, resp.status)
       /\ ~(name = "Google" /\ Truthy(api_key) /\ resp.status = 403)

\* an answer after which translate_lingva goes on to the next instance
LingvaSkips(resp) ==
    \/ resp.kind # "http"
    \/ resp.status = 200 /\ resp.body \in {"notjson", "wrongshape", "empty", "null"}
    \/ resp.status \notin {200, 429}

\* C10 as amended: DeepL, PONS and Google return "[Error]" on a connection
\* failure or timeout, on a 200 body that is not JSON, has the wrong shape
\* or holds no translation, and on every status other than 200, 429, DeepL's
\* 456 and keyed Google's 403; a translation field that is null or a number
\* gives "[Error]" from PONS, a number also from Google without a key.
\* Lingva returns "[Error]" when every instance fails or answers nothing
\* usable, and never after an instance answered 429 or a translation.
C10_FailureIsError ==
    Called =>
        /\ probe.name # "Lingva" /\ probe.calls = 1
              /\ ErrorAnswer(probe.name, probe.api_key, probe.resps[1])
                => probe.out = ERROR
        /\ probe.name = "Lingva" /\ probe.source # probe.target =>
              (probe.out = ERROR
                 <=> \A i \in 1..LingvaInstances : LingvaSkips(probe.resps[i]))

\* C10 witness: all three Lingva instances failed, the last by a timeout,
\* and the adapter returned "[Error]"
C10_AllInstancesFail ==
    /\ probe.phase = "returned"
    /\ probe.name = "Lingva"
    /\ probe.calls = LingvaInstances
    /\ probe.resps[LingvaInstances] = Timeout
    /\ probe.out = ERROR

---------------------------------------------------------------------------
(* Properties of the enrichments.                                          *)

SlotKind(k) == IF k = "ai_explanation" THEN "pons_def" ELSE "groq"
SlotOn(k) == IF k = "ai_explanation" THEN loc.pons_on ELSE loc.groq_on
SlotKey(k) == IF k = "ai_explanation" THEN loc.keys.pons ELSE loc.keys.groq
SlotAnswer(k) == IF k = "ai_explanation" THEN net.pons_def ELSE net.groq

\* the enrichment of slot k was asked for and failed: no credential, no
\* connection, a timeout, a status other than 200, a body that is not JSON,
\* has the wrong shape or holds no usable text
EnrichmentFails(k) ==
    /\ SlotOn(k)
    /\ \/ ~Truthy(SlotKey(k))
       \/ SlotAnswer(k).kind # "http"
       \/ SlotAnswer(k).status # 200
       \/ SlotAnswer(k).body # "text"

\* Groq answered 429 to a request that carried a key
GroqThrottled(k) ==
    /\ k = "groq_explanation"
    /\ Truthy(SlotKey(k))
    /\ SlotAnswer(k).kind = "http" /\ SlotAnswer(k).status = 429

\* C11 as claimed: when the call returns, the slot of every enrichment that
\* failed, for whatever reason, holds the empty string.
C11_FailureIsEmpty ==
    Returned => \A k \in Slots : EnrichmentFails(k) => result.slots[k] = Str("")

\* C11 as amended: when the call returns, the slot of a failed enrichment
\* holds the empty string, except that a 429 answer to get_groq_explanation
\* leaves "[Limit] API-Limit erreicht" in groq_explanation; in either case
\* the matrix is returned with every cell its task computed.
C11_FailureIsSoft ==
    Returned =>
        /\ \A k \in Slots :
              EnrichmentFails(k) =>
                  result.slots[k] = IF GroqThrottled(k)
                                    THEN Str("[Limit] API-Limit erreicht")
                                    ELSE Str("")
        /\ result.translations = ExpectedMatrix.translations

\* C11 witness: the PONS definition timed out on a request that carried a
\* key, its slot is empty and the matrix holds the DeepL translation
C11_DefinitionTimedOut ==
    /\ Returned
    /\ loc.pons_on /\ Truthy(loc.keys.pons)
    /\ net.pons_def = Timeout
    /\ result.slots["ai_explanation"] = Str("")
    /\ HasCell("english", "DeepL")
    /\ result.translations["english"]["DeepL"] = Str("house")

---------------------------------------------------------------------------
(* Properties of credential resolution and of the key store.               *)

\* the stored rows the looked-up user has for the looked-up service
OwnRows == RowsOf(db, lookup.user_id, lookup.service)

\* the deployment's shared key came back
SharedKeyReturned ==
    /\ Truthy(lookup.out)
    /\ lookup.out = AdminKey(db.env, lookup.service)

\* C12 as claimed: get_api_key returns the stored key of every user who has
\* one for the service, and the deployment's key only to a user without.
C12_OwnKeyAlways ==
    lookup.called =>
        /\ OwnRows # {} => \E k \in OwnRows : lookup.out = Str(k.plain)
        /\ SharedKeyReturned => OwnRows = {}

\* C12 as amended: get_api_key returns the stored key of every user who has
\* one for the service and whose stored token decrypts, whatever the user's
\* age or name; it returns None when the token does not decrypt; it returns
\* the deployment's key only to a user without a stored key.
C12_OwnKeyFirst ==
    lookup.called =>
        /\ OwnRows # {} =>
              \E k \in OwnRows :
                  lookup.out = IF k.ok THEN Str(k.plain) ELSE None
        /\ SharedKeyReturned => OwnRows = {}

\* C12 witness: a user inside the trial window saved a PONS key, the
\* deployment has a PONS key of its own, and get_api_key returned the
\* user's key as it was stored
C12_TrialUserOwnKey ==
    /\ lookup.called
    /\ lookup.user_id = 2 /\ lookup.service = "pons"
    /\ db.users[2].age < TRIAL_DAYS
    /\ Truthy(AdminKey(db.env, "pons"))
    /\ \E i \in DOMAIN keyreqs :
          /\ keyreqs[i].op = "save" /\ keyreqs[i].status = 200
          /\ keyreqs[i].user_id = 2 /\ keyreqs[i].service = "pons"
    /\ lookup.out = Str("k2")

\* at most one row per user and service
KeyUnique ==
    \A a, b \in db.api_keys :
        a.user_id = b.user_id /\ a.service = b.service => a = b

\* a step that answers a save request
SaveAnswered(i) ==
    /\ keyreqs[i].op = "save"
    /\ keyreqs[i].phase = "queried"
    /\ keyreqs'[i].phase = "responded"

\* a save never adds a row to a pair that has one, and a save answered 200
\* for such a pair leaves the pair's one row holding the new key
SaveReplaces ==
    \A i \in DOMAIN keyreqs :
        LET r == keyreqs[i]
            before == RowsOf(db, r.user_id, r.service)
            after == RowsOf(db', r.user_id, r.service)
        IN  SaveAnswered(i) /\ before # {} =>
                /\ Cardinality(db'.api_keys) = Cardinality(db.api_keys)
                /\ {k.id : k \in after} = {k.id : k \in before}
                /\ keyreqs'[i].status = 200 =>
                      \A k \in after : k.plain = r.plain /\ k.ok

\* C19: under every interleaving of save and delete requests the table
\* holds at most one row per user and service, and a save for a pair that
\* has a row replaces the key in that row instead of adding a second row.
C19_OneKeyPerService == []KeyUnique /\ [][SaveReplaces]_vars

\* C19 witness: two saves for the same user and service were both answered
\* 200 and the pair's one row, the row that was there before, holds the key
\* of one of them
C19_SavedTwice ==
    \E i, j \in DOMAIN keyreqs :
        /\ i # j
        /\ keyreqs[i].op = "save" /\ keyreqs[j].op = "save"
        /\ keyreqs[i].status = 200 /\ keyreqs[j].status = 200
        /\ keyreqs[i].user_id = 2 /\ keyreqs[j].user_id = 2
        /\ keyreqs[i].service = "pons" /\ keyreqs[j].service = "pons"
        /\ keyreqs[i].plain # keyreqs[j].plain
        /\ \E k \in db.api_keys :
              /\ RowsOf(db, 2, "pons") = {k}
              /\ k.id = 1
              /\ k.plain \in {keyreqs[i].plain, keyreqs[j].plain}

Services == {"deepl", "pons", "google", "groq"}

\* the coordinator has resolved the request's keys
KeysResolved == loc # LocIdle

\* the request's user has no stored key for the service, is not the
\* administrative account and is not inside the trial window
NoClaim(s) ==
    /\ req.user_id \in DOMAIN db.users
    /\ RowsOf(db, req.user_id, s) = {}
    /\ req.user_id # 1
    /\ db.users[req.user_id].username # "admin"
    /\ ~(/\ db.users[req.user_id].has_created_at
         /\ db.users[req.user_id].age < TRIAL_DAYS)

\* the service whose key a translator works with
ServiceOf(name) ==
    CASE name = "DeepL" -> "deepl"
      [] name = "PONS" -> "pons"
      [] name = "Google" -> "google"
      [] OTHER -> ""

---------------------------------------------------------------------------
(* Properties of the request's options and of the pool.                    *)

\* the providers the enabled_services map sets to false
SetFalse ==
    IF req.enabled_services.type = "NoneType" THEN {}
    ELSE {p \in DOMAIN req.enabled_services.v : ~req.enabled_services.v[p]}

\* C14: no task is dispatched for a provider the enabled_services map sets
\* to false, and when the call returns every target language holds exactly
\* the providers among DeepL, PONS, Google, Lingva that the map does not
\* set to false: all four without a map, and every provider the map does
\* not name.
C14_EnabledOnly ==
    /\ \A i \in Indices("translate") : futures[i].name \notin SetFalse
    /\ Returned =>
          \A l \in DOMAIN result.translations :
              DOMAIN result.translations[l] = AdapterNames \ SetFalse

\* C14 witness: the map names PONS as on, DeepL and Lingva as off and does
\* not name Google, and both languages hold PONS and Google only
C14_OneOffOneMissing ==
    /\ Returned
    /\ req.enabled_services.type = "dict"
    /\ DOMAIN req.enabled_services.v = {"PONS", "DeepL", "Lingva"}
    /\ req.enabled_services.v["PONS"]
    /\ SetFalse = {"DeepL", "Lingva"}
    /\ DOMAIN result.translations = {"english", "spanish"}
    /\ DOMAIN result.translations["english"] = {"PONS", "Google"}
    /\ DOMAIN result.translations["spanish"] = {"PONS", "Google"}

---------------------------------------------------------------------------
(* Properties of the worker pool when a call submits more tasks than it    *)
(* has workers.                                                            *)

\* a task that goes from queued to running found a worker free
StartsOnFreeWorker ==
    \A i \in 1..Len(futures) :
        (futures[i].status = "queued" /\ futures'[i].status = "running")
            => Cardinality(Running) < max_workers

\* C15: at every moment of one translate_to_all_languages call at most 12
\* adapter and enrichment calls are executing, however many targets the
\* request names, and a task beyond the bound stays queued until a worker
\* is free: it starts only from a state with fewer than 12 calls under way.
C15_BoundedConcurrency ==
    /\ [](Cardinality(Running) <= max_workers)
    /\ [][StartsOnFreeWorker]_vars

\* C15 witness: all twelve workers are busy, a thirteenth task is queued,
\* and no task has ended yet
C15_PoolSaturated ==
    /\ Cardinality(Running) = max_workers
    /\ Queued # {}
    /\ Len(futures) > max_workers
    /\ \A i \in 1..Len(futures) : futures[i].status # "done"

\* C20: when every dispatched adapter and enrichment call comes to its end,
\* translate_to_all_languages eventually returns the assembled matrix, also
\* when it dispatched more tasks than the pool has workers: the matrix has
\* a cell for every target and both enrichment slots.
C20_EventuallyReturns ==
    <>(/\ Returned
       /\ DOMAIN result.translations = ExpectedTargetSet
       /\ \A l \in ExpectedTargetSet :
              DOMAIN result.translations[l] = ExpectedProviders
       /\ DOMAIN result.slots = Slots)

\* C20 witness: the call has returned after thirteen tasks on twelve
\* workers, every one of them done
C20_ReturnedBeyondWorkers ==
    /\ Returned
    /\ Len(futures) = max_workers + 1
    /\ AllDone(1..Len(futures))
    /\ Cardinality(DOMAIN result.translations) = Len(PoolTargets)

---------------------------------------------------------------------------
(* Properties of the POST /translate route.                                *)

Responded == http.phase = "responded"

\* C16: POST /translate fails only on request-level validation, with 401
\* for a caller who is not logged in or 400 for a text that is empty after
\* trimming, and does so before any credential is resolved or any task is
\* dispatched; a request that passed validation is answered with 200
\* whatever the adapters' outcomes are.
C16_FailsOnlyOnValidation ==
    (Responded /\ http.status # 200) =>
        /\ http.status \in {401, 400}
        /\ pc = "rejected"
        /\ ~KeysResolved
        /\ Len(futures) = 0

---------------------------------------------------------------------------
(* Names outside the registry.                                             *)

Known == DOMAIN LANGUAGE_CODES

\* every element of the target list is a name
NamesOnly ==
    \A t \in ExpectedTargetSet : ~Unhashable(t)

UnknownTargets == {t \in ExpectedTargetSet : t \notin Known}

\* the tasks of unknown target names carry the code c, and when the call
\* returns each unknown target is a key whose providers all ran
UnknownServedWith(c) ==
    /\ NamesOnly => pc \notin {"unwind", "raised"}
    /\ (KeysResolved /\ ExpectedSource \notin Known) => loc.source_code = "de"
    /\ \A i \in Indices("translate") :
          futures[i].lang \notin Known => futures[i].code = c
    /\ Returned =>
          \A t \in UnknownTargets :
              /\ t \in DOMAIN result.translations
              /\ \A p \in ExpectedProviders :
                    /\ HasCell(t, p)
                    /\ \E i \in Indices("translate") :
                          /\ futures[i].lang = t
                          /\ futures[i].name = p
                          /\ futures[i].status = "done"

\* C17 as stated: a language name outside LANGUAGE_CODES, as source or as
\* target, never makes translate_to_all_languages fail; the code put in its
\* place is the source language's default ("de"), its tasks are dispatched
\* and the returned matrix has the unknown target name as a key.
C17_SourceDefaultForAll == UnknownServedWith("de")

\* C17: a language name outside LANGUAGE_CODES, as source or as target,
\* never makes translate_to_all_languages fail; an unknown source gets the
\* code "de" and an unknown target the code "en", the target's tasks are
\* dispatched with that code and the returned matrix has the unknown target
\* name as a key with a cell for every enabled provider.
C17_UnknownNamesServed == UnknownServedWith("en")

\* C17 witness: source and target are both outside the registry; the call
\* returned a row for the target whose task translated from "de" to "en"
C17_BothUnknown ==
    /\ Returned
    /\ ExpectedSource = "klingon"
    /\ loc.source_code = "de"
    /\ UnknownTargets = {"elvish"}
    /\ DOMAIN result.translations = {"elvish"}
    /\ \E i \in Indices("translate") :
          /\ futures[i].lang = "elvish"
          /\ futures[i].code = "en"
          /\ futures[i].name = "DeepL"
          /\ futures[i].calls = 1
          /\ futures[i].out = Str("house")

---------------------------------------------------------------------------
(* Storage during a translation request.                                   *)

\* C18: a translation request, through POST /translate or as a direct call
\* of translate_to_all_languages, only reads storage: in every state of the
\* request, for every adapter outcome, the stored users, API keys,
\* glossaries and glossary entries are those the request found, and no
\* step of it writes any of them, so no translation result is persisted.
C18_StorageUntouched ==
    /\ [](/\ db.users = Db.users
          /\ db.api_keys = Db.api_keys
          /\ db.glossaries = Db.glossaries
          /\ db.glossary_entries = Db.glossary_entries)
    /\ [][db' = db]_vars

\* C18 witness: a request through the route was answered with the matrix
\* after the caller's stored key was read from the table, with one cell
\* a translation and one a failure
C18_AnsweredFromStoredKey ==
    /\ Responded
    /\ http.status = 200
    /\ req.user_id = 2
    /\ loc.keys.pons = Str("anna-pons")
    /\ HasCell("english", "DeepL")
    /\ HasCell("english", "Google")
    /\ result.translations["english"]["DeepL"]
           # result.translations["english"]["Google"]
    /\ db = Db

---------------------------------------------------------------------------
(* The default source language.                                            *)

\* the request names no source language: absent, empty or "auto"
DefaultedSource == req.source_lang \in {None, Str(""), Str("auto")}

\* C21: when the source language is absent, empty or "auto", the call uses
\* "german" with code "de" as the effective source: "german" is removed
\* from the targets, every adapter and enrichment task computes what its
\* function gives for source code "de", and the result echoes "german" as
\* source language together with the unchanged source text.
C21_DefaultSource ==
    (KeysResolved /\ DefaultedSource) =>
        /\ loc.source_lang = "german"
        /\ loc.source_code = "de"
        /\ \A k \in 1..Len(loc.targets) : loc.targets[k] # "german"
        /\ \A i \in 1..Len(futures) :
              futures[i].status = "done" =>
                  LET r == RunTask(futures[i], req.text, "de", loc.keys, net)
                  IN  futures[i].out = r.out /\ futures[i].calls = r.calls
        /\ result.source_language = "german"
        /\ result.source_text = req.text
        /\ "german" \notin DOMAIN result.translations

\* C21 witness: the source was "auto", the targets named german and
\* english, and the call returned english only with "german" echoed
C21_AutoSource ==
    /\ Returned
    /\ req.source_lang = Str("auto")
    /\ req.target_languages = List(<<"german", "english">>)
    /\ DOMAIN result.translations = {"english"}
    /\ result.source_language = "german"
    /\ result.source_text = "Haus"
    /\ \E i \in Indices("translate") :
          futures[i].status = "done" /\ futures[i].calls = 1

---------------------------------------------------------------------------
(* Credential resolution and dispatch.                                     *)

\* the keys and the number of get_api_key calls stay as they are
KeysStay ==
    KeysResolved => (loc'.keys = loc.keys /\ loc'.lookups = loc.lookups)

\* C22: in translate_to_all_languages every get_api_key call (deepl, pons,
\* google, groq) has completed before the first adapter or enrichment task
\* is submitted, and each service is resolved exactly once per request
\* whatever the number of target languages: once a task exists the keys
\* are resolved, with one lookup per service for a request with a user,
\* and no later step resolves or changes a key.
C22_ResolvedOnceBeforeDispatch ==
    /\ [](/\ Len(futures) > 0 => KeysResolved
          /\ KeysResolved =>
                \A s \in DOMAIN loc.lookups :
                    /\ loc.lookups[s] = (IF req.user_id # 0 THEN 1 ELSE 0)
                    /\ loc.keys[s] = ResolveKey(req.user_id, s, db))
    /\ [][KeysStay]_vars

\* C22 witness: a request of a user with two target languages and two
\* providers has submitted all four tasks after one lookup per service
C22_FourTasksOneLookup ==
    /\ req.user_id = 3
    /\ Len(loc.targets) = 2
    /\ Len(loc.translators) = 2
    /\ Cardinality(Indices("translate")) = 4
    /\ \A s \in DOMAIN loc.lookups : loc.lookups[s] = 1
    /\ loc.keys.google = Str("bob-google")

---------------------------------------------------------------------------
(* Tasks and cells.                                                        *)

\* the translation tasks submitted for one cell
TasksOf(l, p) ==
    {i \in Indices("translate") : futures[i].lang = l /\ futures[i].name = p}

\* C23: for every request exactly one adapter task is dispatched per pair
\* of target language and enabled provider, and a failed task is never
\* dispatched again, so each matrix cell is written exactly once and no
\* cell is written by two different tasks.
C23_OneTaskPerCell ==
    /\ \A i \in Indices("translate") :
          TasksOf(futures[i].lang, futures[i].name) = {i}
    /\ \A l \in DOMAIN result.translations :
          \A p \in DOMAIN result.translations[l] :
              Cardinality(TasksOf(l, p) \cap collected) = 1
    /\ Returned =>
          \A l \in DOMAIN result.translations :
              \A p \in ExpectedProviders : Cardinality(TasksOf(l, p)) = 1

---------------------------------------------------------------------------
(* The Lingva instances.                                                   *)

\* translate_lingva was called with differing codes and has returned
LingvaCalled ==
    /\ probe.phase = "returned"
    /\ probe.name = "Lingva"
    /\ probe.source # probe.target

\* a usable success response: 200 with a non-empty translation
Usable(resp) ==
    resp.kind = "http" /\ resp.status = 200 /\ resp.body = "text"

\* an answer that ends the loop: 200 with a translation field that is
\* truthy, or 429
Decisive(resp) ==
    /\ resp.kind = "http"
    /\ \/ resp.status = 200 /\ resp.body \in {"text", "number"}
       \/ resp.status = 429

\* the instances before k did not satisfy P, instance k does
FirstWith(P(_), k) ==
    /\ k \in 1..LingvaInstances
    /\ P(probe.resps[k])
    /\ \A j \in 1..(k - 1) : ~P(probe.resps[j])

\* C24 as stated: translate_lingva asks its instances in list order; the
\* first one that answers 200 with a non-empty translation determines the
\* result and no later one is asked; every other answer is skipped, and
\* when no instance succeeds the outcome is "[Error]".
C24_FirstUsableWins ==
    LingvaCalled =>
        /\ \A k \in 1..LingvaInstances :
              FirstWith(Usable, k) =>
                  probe.out = Str(probe.resps[k].text) /\ probe.calls = k
        /\ (\A k \in 1..LingvaInstances : ~Usable(probe.resps[k])) =>
              probe.out = ERROR /\ probe.calls = LingvaInstances

\* C24: translate_lingva asks its instances in list order; the first one
\* that answers 429 or answers 200 with a truthy translation field ends
\* the loop, with "[Limit]" or with that field as the result, and no later
\* instance is asked; an instance that raises, answers another status or
\* answers 200 without a translation is skipped, and when every instance
\* was skipped the outcome is "[Error]" after all three were asked.
C24_FirstDecisiveWins ==
    LingvaCalled =>
        /\ \A k \in 1..LingvaInstances :
              FirstWith(Decisive, k) =>
                  /\ probe.calls = k
                  /\ probe.out = (IF probe.resps[k].status = 429 THEN LIMIT
                                  ELSE Leaf(probe.resps[k]))
        /\ (\A k \in 1..LingvaInstances : ~Decisive(probe.resps[k])) =>
              probe.out = ERROR /\ probe.calls = LingvaInstances

\* C24 witness: the first instance could not be reached, the second
\* answered a translation, and the third, which would have answered too,
\* was not asked
C24_SecondInstanceWins ==
    /\ LingvaCalled
    /\ probe.resps[1] = ConnError
    /\ Usable(probe.resps[2])
    /\ Usable(probe.resps[3])
    /\ probe.calls = 2
    /\ probe.out = Str("house")

---------------------------------------------------------------------------
(* The hits of a PONS answer.  A text is a sequence of characters here,    *)
(* so that length, case and substrings are what they are in the code.      *)

\* str.lower() on the letters the words below are written with
LowerChar(c) == IF c = "H" THEN "h" ELSE c
RECURSIVE Lower(_)
Lower(s) == IF Len(s) = 0 THEN <<>> ELSE <<LowerChar(Head(s))>> \o Lower(Tail(s))

\* sub in s
Contains(s, sub) ==
    \E i \in 1..(Len(s) - Len(sub) + 1) : SubSeq(s, i, i + Len(sub) - 1) = sub
\* s.startswith(pre)
StartsWith(s, pre) == Len(s) >= Len(pre) /\ SubSeq(s, 1, Len(pre)) = pre

\* lines 412-419: the cleaned texts that are dropped for what they contain
Dropped(clean) ==
    \/ Contains(clean, <<"s", "b">>) \/ Contains(clean, <<"s", "t", "h">>)
    \/ Contains(clean, <<"j", "d", "n">>) \/ Contains(clean, <<"e", "t", "w">>)
    \/ Contains(clean, <<"d", "a", "t">>) \/ Contains(clean, <<"a", "k", "k">>)
    \/ StartsWith(clean, <<"t", "o", " ">>) /\ Len(clean) > 15
    \/ StartsWith(clean, <<"s", "i", "c", "h", " ">>)

\* lines 392-422: the loops over hits, roms and arabs, on the arabs in
\* document order; clean is the target text after the substitutions
RECURSIVE Alternatives(_, _, _, _)
Alternatives(arabs, i, seen, all_translations) ==
    IF i > Len(arabs) THEN all_translations
    ELSE LET arab == arabs[i]
             clean == arab.clean
         IN  IF ~arab.translations \/ arab.example \/ Dropped(clean)
             THEN Alternatives(arabs, i + 1, seen, all_translations)
             ELSE IF Len(clean) > 0 /\ Lower(clean) \notin seen /\ Len(clean) < 25
             THEN Alternatives(arabs, i + 1, seen \cup {Lower(clean)},
                               Append(all_translations, clean))
             ELSE Alternatives(arabs, i + 1, seen, all_translations)

\* ", ".join(list)
RECURSIVE JoinComma(_)
JoinComma(list) ==
    IF Len(list) = 0 THEN <<>>
    ELSE IF Len(list) = 1 THEN list[1]
    ELSE list[1] \o <<",", " ">> \o JoinComma(Tail(list))

ErrorChars == <<"[", "E", "r", "r", "o", "r", "]">>

\* faulty variant: every alternative found is returned
PonsHitsAnswer_uncapped(arabs) ==
    LET all_translations == Alternatives(arabs, 1, {}, <<>>)
    IN  IF Len(all_translations) > 0 THEN JoinComma(all_translations)
        ELSE ErrorChars

\* lines 424-425 and 428: the first eight, joined, or "[Error]"
PonsHitsAnswer(arabs) ==
    LET all_translations == Alternatives(arabs, 1, {}, <<>>)
    IN  IF Len(all_translations) > 0
        THEN JoinComma(SubSeq(all_translations, 1,
                              IF Len(all_translations) < 8
                              THEN Len(all_translations) ELSE 8))
        ELSE ErrorChars

\* cleaned target texts: empty, short words, one differing in case only,
\* words with a dropped substring, phrases with "to " and "sich ", and
\* texts of 24 and 25 characters
PonsWords ==
    [empty |-> <<>>,
     hut |-> <<"h", "u", "t">>,
     Hut |-> <<"H", "u", "t">>,
     inn |-> <<"i", "n", "n">>,
     den |-> <<"d", "e", "n">>,
     pad |-> <<"p", "a", "d">>,
     digs |-> <<"d", "i", "g", "s">>,
     home |-> <<"h", "o", "m", "e">>,
     house |-> <<"h", "o", "u", "s", "e">>,
     abode |-> <<"a", "b", "o", "d", "e">>,
     villa |-> <<"v", "i", "l", "l", "a">>,
     husband |-> <<"h", "u", "s", "b", "a", "n", "d">>,
     data |-> <<"d", "a", "t", "a">>,
     to_go |-> <<"t", "o", " ", "g", "o">>,
     to_live |->
        <<"t", "o", " ", "l", "i", "v", "e", " ", "i", "n", " ", "a", " ", "h", "o", "u", "s", "e">>,
     sich |-> <<"s", "i", "c", "h", " ", "s", "e", "t", "z", "e", "n">>,
     long24 |->
        <<"t", "h", "e", " ", "h", "o", "u", "s", "e", " ", "a", "t", " ", "t", "h", "e", " ", "c", "o", "r", "n", "e", "r", "s">>,
     long25 |->
        <<"t", "h", "e", " ", "h", "o", "u", "s", "e", "s", " ", "a", "t", " ", "t", "h", "e", " ", "c", "o", "r", "n", "e", "r", "s">>]

Arab(clean) == [translations |-> TRUE, example |-> FALSE, clean |-> clean]

\* the arabs of the explored answers: one per word, one whose source is an
\* example sentence and one without translations
PonsArabs ==
    {Arab(PonsWords[w]) : w \in DOMAIN PonsWords}
      \cup {[Arab(PonsWords.home) EXCEPT !.example = TRUE],
            [Arab(PonsWords.inn) EXCEPT !.translations = FALSE]}

\* longest answer of which every combination of arabs is explored
MaxArabs == 2

\* ten words that all survive, from the k-th on and around
TenWordArabs ==
    <<Arab(PonsWords.hut), Arab(PonsWords.inn), Arab(PonsWords.den),
      Arab(PonsWords.pad), Arab(PonsWords.digs), Arab(PonsWords.home),
      Arab(PonsWords.house), Arab(PonsWords.abode), Arab(PonsWords.villa),
      Arab(PonsWords.to_go)>>
RECURSIVE Rotated(_, _)
Rotated(list, k) ==
    IF k = 0 THEN list ELSE Rotated(Append(Tail(list), Head(list)), k - 1)

\* long answers: the ten words with one more arab at the front or after
\* the fourth
PonsLongAnswers ==
    {SubSeq(Rotated(TenWordArabs, k), 1, p) \o <<a>>
        \o SubSeq(Rotated(TenWordArabs, k), p + 1, 10) :
            k \in 0..9, p \in {0, 4}, a \in PonsArabs}

PonsAnswers ==
    UNION {[1..n -> PonsArabs] : n \in 0..MaxArabs} \cup PonsLongAnswers

\* translate_pons from a 200 answer with hits to its return value
PonsCall ==
    /\ probe.phase = "hits"
    /\ probe' = [probe EXCEPT !.phase = "answered",
                              !.out = PonsHitsAnswer(probe.arabs)]
    /\ UNCHANGED <<glossreqs, http, keyreqs, lookup, req, db, net, pc, loc, futures,
                   collected, result>>

InitPons ==
    /\ http = HttpIdle
    /\ keyreqs = KeyreqsIdle
    /\ glossreqs = GlossreqsIdle
    /\ lookup = LookupIdle
    /\ \E a \in PonsAnswers :
          probe = [phase |-> "hits", name |-> "PONS", arabs |-> a, out |-> <<>>]
    /\ req = Request(None, NoneArg, NoneArg, NoneArg, 0)
    /\ db = Db
    /\ net = NetUnused
    /\ pc = "idle"
    /\ loc = LocIdle
    /\ futures = <<>>
    /\ collected = {}
    /\ result = ResultIdle

NextPons == PonsCall

SpecPons == InitPons /\ [][NextPons]_vars

\* the alternatives of a returned text: its pieces between ", "
RECURSIVE SplitComma(_, _)
SplitComma(s, piece) ==
    IF Len(s) = 0 THEN <<piece>>
    ELSE IF Len(s) >= 2 /\ SubSeq(s, 1, 2) = <<",", " ">>
         THEN <<piece>> \o SplitComma(SubSeq(s, 3, Len(s)), <<>>)
    ELSE SplitComma(Tail(s), Append(piece, Head(s)))

PonsAnswered == probe.phase = "answered"

\* the arab takes part in the filtering: it has a translation whose source
\* is no example and whose text is not dropped
Candidate(arab) ==
    arab.translations /\ ~arab.example /\ ~Dropped(arab.clean)

\* the place of the first candidate with this text, whatever its case
FirstPlace(arabs, alt) ==
    CHOOSE k \in 1..Len(arabs) :
        /\ Candidate(arabs[k]) /\ Lower(arabs[k].clean) = Lower(alt)
        /\ \A j \in 1..(k - 1) :
              ~(Candidate(arabs[j]) /\ Lower(arabs[j].clean) = Lower(alt))

\* C25: on a 200 answer translate_pons returns at most 8 cleaned
\* alternatives, in the order of their first occurrence, pairwise distinct
\* when compared without case, each non-empty and shorter than 25
\* characters; when no candidate survives the filtering it returns
\* "[Error]" and not an empty text.
C25_PonsAlternatives ==
    PonsAnswered =>
        LET arabs == probe.arabs
            alts == SplitComma(probe.out, <<>>)
            Survives(k) == /\ Candidate(arabs[k])
                           /\ Len(arabs[k].clean) > 0
                           /\ Len(arabs[k].clean) < 25
        IN  /\ Len(probe.out) > 0
            /\ (probe.out = ErrorChars)
                  <=> ~\E k \in 1..Len(arabs) : Survives(k)
            /\ probe.out # ErrorChars =>
                  /\ Len(alts) <= 8
                  /\ \A i \in 1..Len(alts) :
                        /\ Len(alts[i]) > 0 /\ Len(alts[i]) < 25
                        /\ \E k \in 1..Len(arabs) :
                              Survives(k) /\ arabs[k].clean = alts[i]
                        /\ arabs[FirstPlace(arabs, alts[i])].clean = alts[i]
                  /\ \A i, j \in 1..Len(alts) :
                        i < j =>
                            /\ Lower(alts[i]) # Lower(alts[j])
                            /\ FirstPlace(arabs, alts[i])
                                  < FirstPlace(arabs, alts[j])

\* C25 witness: an answer with eleven arabs, ten of which survive, one of
\* them a repetition in another case; eight alternatives were returned
C25_EightOfTen ==
    /\ PonsAnswered
    /\ Len(probe.arabs) = 11
    /\ probe.arabs[1].clean = PonsWords.hut
    /\ probe.arabs[5].clean = PonsWords.Hut
    /\ Len(SplitComma(probe.out, <<>>)) = 8
    /\ SplitComma(probe.out, <<>>)[1] = PonsWords.hut
    /\ SplitComma(probe.out, <<>>)[8] = PonsWords.abode

---------------------------------------------------------------------------
(* Stored keys that do not decrypt.                                        *)

\* the looked-up user is the administrator or inside the trial window
SharedKeyDue ==
    /\ lookup.user_id \in DOMAIN db.users
    /\ LET user == db.users[lookup.user_id]
       IN  \/ lookup.user_id = 1
           \/ user.username = "admin"
           \/ ~user.has_created_at
           \/ user.age < TRIAL_DAYS

\* C26: when the user has a stored key for the service and it cannot be
\* decrypted, get_api_key returns no credential: not the stored key, and
\* not the shared deployment key either, also for the administrator and
\* for a user inside the trial window.
C26_UndecryptableIsNone ==
    (lookup.called /\ \E k \in OwnRows : ~k.ok) => lookup.out = None

\* C26 witness: the administrator's stored DeepL key does not decrypt, the
\* deployment has a DeepL key, and the lookup returned None
C26_AdminWithoutKey ==
    /\ lookup.called
    /\ lookup.user_id = 1
    /\ lookup.service = "deepl"
    /\ \E k \in OwnRows : ~k.ok
    /\ SharedKeyDue
    /\ Truthy(AdminKey(db.env, "deepl"))
    /\ lookup.out = None

---------------------------------------------------------------------------
(* Services without a stored key.                                          *)

\* a request for a service that cannot be stored changes no row
OtherServiceKeepsStorage ==
    \A i \in DOMAIN keyreqs :
        (/\ keyreqs[i].op = "save"
         /\ keyreqs[i].service \notin valid_services
         /\ keyreqs'[i] # keyreqs[i])
            => /\ db' = db
               /\ keyreqs'[i].phase = "responded"
               /\ keyreqs'[i].status \in {400, 401}

\* the looked-up user is the administrator or inside the trial window
AdminOrTrial ==
    /\ lookup.user_id \in DOMAIN db.users
    /\ LET user == db.users[lookup.user_id]
       IN  \/ lookup.user_id = 1
           \/ user.username = "admin"
           \/ user.has_created_at /\ user.age < TRIAL_DAYS

\* no row for a service outside deepl, pons, google; a Groq key comes from
\* the deployment, to a user for whom Due holds
GroqFromDeployment(Due) ==
    /\ \A k \in db.api_keys : k.service \in valid_services
    /\ (lookup.called /\ lookup.service = "groq" /\ Truthy(lookup.out))
          => (lookup.out = AdminKey(db.env, "groq") /\ Due)

---------------------------------------------------------------------------
(* Glossaries, their entries and the vocabulary test.  A handler reads,    *)
(* then writes and commits; handlers of different worker processes         *)
(* interleave between the two.  glossary_id 0 stands for None.             *)

GlossaryRequest(op, caller, glossary_id, entry_id, correct, learn_limit) ==
    [op |-> op, caller |-> caller, glossary_id |-> glossary_id,
     entry_id |-> entry_id, correct |-> correct, learn_limit |-> learn_limit,
     phase |-> "received", user_id |-> 0, glossary |-> 0,
     learning_rate |-> 0, total_learning_rate |-> 0, status |-> 0]

\* faulty variant: the glossary with this id, whoever owns it
OwnGlossaries_anyOwner(d, user_id, glossary_id) ==
    {g \in d.glossaries : g.id = glossary_id}

\* the caller's glossary with this id
OwnGlossaries(d, user_id, glossary_id) ==
    {g \in d.glossaries : g.id = glossary_id /\ g.user_id = user_id}

\* the caller's default glossaries
DefaultGlossaries(d, user_id) ==
    {g \in d.glossaries : g.user_id = user_id /\ g.is_default}

\* list_glossaries, save_to_glossary and vocab_test_start up to the glossary
\* they work on: the named one if it is the caller's, else the default one,
\* which get_or_create_default_glossary looks up (lines 650-653)
ResolveGlossary(i) ==
    /\ glossreqs[i].op \in {"list", "save", "start"}
    /\ glossreqs[i].phase = "received"
    /\ LET r == glossreqs[i]
           user == CurrentUser(r.caller, db)
           uid == CHOOSE u \in user : TRUE
       IN  IF user = {}
           THEN glossreqs' = [glossreqs EXCEPT ![i] = Answered(r, 401)]
           ELSE IF r.op # "list" /\ r.glossary_id # 0
           THEN glossreqs' =
                  [glossreqs EXCEPT ![i] =
                     IF OwnGlossaries(db, uid, r.glossary_id) = {}
                     THEN Answered(r, 404)
                     ELSE [r EXCEPT !.phase = "resolved", !.user_id = uid,
                                    !.glossary = r.glossary_id]]
           ELSE IF DefaultGlossaries(db, uid) = {}
           THEN glossreqs' = [glossreqs EXCEPT ![i] =
                                 [r EXCEPT !.phase = "creating", !.user_id = uid]]
           ELSE \E g \in DefaultGlossaries(db, uid) :
                  glossreqs' = [glossreqs EXCEPT ![i] =
                                   [r EXCEPT !.phase = "resolved",
                                             !.user_id = uid, !.glossary = g.id]]
    /\ UNCHANGED <<http, keyreqs, lookup, probe, req, db, net, pc, loc, futures,
                   collected, result>>

\* get_or_create_default_glossary, lines 655-663: add, commit, refresh
CreateDefault(i) ==
    /\ glossreqs[i].phase = "creating"
    /\ LET r == glossreqs[i]
           id == NextId(db.glossaries)
       IN  /\ db' = [db EXCEPT !.glossaries =
                        @ \cup {[id |-> id, user_id |-> r.user_id,
                                 name |-> "Hauptglossar", is_default |-> TRUE]}]
           /\ glossreqs' = [glossreqs EXCEPT ![i] =
                               [r EXCEPT !.phase = "resolved", !.glossary = id]]
    /\ UNCHANGED <<http, keyreqs, lookup, probe, req, net, pc, loc, futures,
                   collected, result>>

\* list_glossaries, lines 678-690: the listing
ListGlossaries(i) ==
    /\ glossreqs[i].op = "list"
    /\ glossreqs[i].phase = "resolved"
    /\ glossreqs' = [glossreqs EXCEPT ![i] = Answered(glossreqs[i], 200)]
    /\ UNCHANGED <<http, keyreqs, lookup, probe, req, db, net, pc, loc, futures,
                   collected, result>>

\* save_to_glossary, lines 755-781: the new entry and the commit
SaveEntry(i) ==
    /\ glossreqs[i].op = "save"
    /\ glossreqs[i].phase = "resolved"
    /\ LET r == glossreqs[i]
       IN  /\ db' = [db EXCEPT !.glossary_entries =
                        @ \cup {[id |-> NextId(@), user_id |-> r.user_id,
                                 glossary_id |-> r.glossary,
                                 german |-> "Haus", english |-> "house",
                                 learning_rate |-> 0,
                                 total_learning_rate |-> 0, recent |-> TRUE]}]
           /\ glossreqs' = [glossreqs EXCEPT ![i] = Answered(r, 200)]
    /\ UNCHANGED <<http, keyreqs, lookup, probe, req, net, pc, loc, futures,
                   collected, result>>

\* vocab_test_start, lines 1023-1036: the UPDATE of the entries in scope
StartReset(i) ==
    /\ glossreqs[i].op = "start"
    /\ glossreqs[i].phase = "resolved"
    /\ LET r == glossreqs[i]
           InScope(e) == /\ e.glossary_id = r.glossary
                         /\ e.recent
                         /\ e.total_learning_rate < r.learn_limit
       IN  /\ db' = [db EXCEPT !.glossary_entries =
                        {IF InScope(e) THEN [e EXCEPT !.learning_rate = 0]
                         ELSE e : e \in @}]
           /\ glossreqs' = [glossreqs EXCEPT ![i] = Answered(r, 200)]
    /\ UNCHANGED <<http, keyreqs, lookup, probe, req, net, pc, loc, futures,
                   collected, result>>

\* delete_glossary_entry, lines 966-976, and vocab_test_answer, lines
\* 1117-1127: the caller's entry with this id; an answer that is not
\* correct writes nothing and returns
EntryQuery(i) ==
    /\ glossreqs[i].op \in {"delete_entry", "answer"}
    /\ glossreqs[i].phase = "received"
    /\ LET r == glossreqs[i]
           user == CurrentUser(r.caller, db)
           uid == CHOOSE u \in user : TRUE
           found == {e \in db.glossary_entries :
                        e.id = r.entry_id /\ e.user_id = uid}
           entry == CHOOSE e \in found : TRUE
       IN  glossreqs' =
             [glossreqs EXCEPT ![i] =
                IF user = {} THEN Answered(r, 401)
                ELSE IF found = {} THEN Answered(r, 404)
                ELSE IF r.op = "answer" /\ ~r.correct
                THEN Answered([r EXCEPT !.user_id = uid], 200)
                ELSE [r EXCEPT !.phase = "found", !.user_id = uid,
                               !.learning_rate = entry.learning_rate,
                               !.total_learning_rate =
                                   entry.total_learning_rate]]
    /\ UNCHANGED <<http, keyreqs, lookup, probe, req, db, net, pc, loc, futures,
                   collected, result>>

\* delete_glossary_entry, lines 979-981: a DELETE that finds the row gone
\* deletes nothing
DeleteEntry(i) ==
    /\ glossreqs[i].op = "delete_entry"
    /\ glossreqs[i].phase = "found"
    /\ LET r == glossreqs[i]
       IN  /\ db' = [db EXCEPT !.glossary_entries =
                        {e \in @ : e.id # r.entry_id}]
           /\ glossreqs' = [glossreqs EXCEPT ![i] = Answered(r, 200)]
    /\ UNCHANGED <<http, keyreqs, lookup, probe, req, net, pc, loc, futures,
                   collected, result>>

\* faulty variant: a correct answer counts for the running test only
AnswerCommit_sessionOnly(i) ==
    /\ glossreqs[i].op = "answer"
    /\ glossreqs[i].phase = "found"
    /\ LET r == glossreqs[i]
           gone == \A e \in db.glossary_entries : e.id # r.entry_id
       IN  /\ db' = [db EXCEPT !.glossary_entries =
                        {IF e.id = r.entry_id
                         THEN [e EXCEPT !.learning_rate = r.learning_rate + 1]
                         ELSE e : e \in @}]
           /\ glossreqs' = [glossreqs EXCEPT
                               ![i] = Answered(r, IF gone THEN 500 ELSE 200)]
    /\ UNCHANGED <<http, keyreqs, lookup, probe, req, net, pc, loc, futures,
                   collected, result>>

\* vocab_test_answer, lines 1129-1132: both counters are written as the
\* values read plus one; the UPDATE of a row that is gone raises
AnswerCommit(i) ==
    /\ glossreqs[i].op = "answer"
    /\ glossreqs[i].phase = "found"
    /\ LET r == glossreqs[i]
           gone == \A e \in db.glossary_entries : e.id # r.entry_id
       IN  /\ db' = [db EXCEPT !.glossary_entries =
                        {IF e.id = r.entry_id
                         THEN [e EXCEPT
                                 !.learning_rate = r.learning_rate + 1,
                                 !.total_learning_rate =
                                     r.total_learning_rate + 1]
                         ELSE e : e \in @}]
           /\ glossreqs' = [glossreqs EXCEPT
                               ![i] = Answered(r, IF gone THEN 500 ELSE 200)]
    /\ UNCHANGED <<http, keyreqs, lookup, probe, req, net, pc, loc, futures,
                   collected, result>>

\* most glossary and vocab-test requests of one run
MaxGlossaryRequests == 3

\* anna owns glossaries 1 (default) and 2 and entry 1; bob owns entry 2 and
\* no glossary
GlossaryRequestInputs ==
    {GlossaryRequest("list", "bob", 0, 0, FALSE, 0),
     GlossaryRequest("save", "bob", 0, 0, FALSE, 0),
     GlossaryRequest("save", "anna", 2, 0, FALSE, 0),
     GlossaryRequest("save", "bob", 1, 0, FALSE, 0),
     GlossaryRequest("delete_entry", "anna", 0, 2, FALSE, 0),
     GlossaryRequest("delete_entry", "anna", 0, 1, FALSE, 0),
     GlossaryRequest("answer", "anna", 0, 1, TRUE, 0),
     GlossaryRequest("answer", "anna", 0, 1, FALSE, 0),
     GlossaryRequest("answer", "bob", 0, 1, TRUE, 0),
     GlossaryRequest("start", "anna", 0, 0, FALSE, 2),
     GlossaryRequest("start", "bob", 1, 0, FALSE, 10),
     GlossaryRequest("start", "", 0, 0, FALSE, 10)}

GlossaryRuns ==
    UNION {[1..n -> GlossaryRequestInputs] : n \in 0..MaxGlossaryRequests}

InitGlossary ==
    /\ http = HttpIdle
    /\ keyreqs = KeyreqsIdle
    /\ glossreqs \in GlossaryRuns
    /\ lookup = LookupIdle
    /\ probe = ProbeIdle
    /\ req = NoCall
    /\ db = Db
    /\ net = NetUnused
    /\ pc = "idle"
    /\ loc = LocIdle
    /\ futures = <<>>
    /\ collected = {}
    /\ result = ResultIdle

NextGlossary ==
    \/ \E i \in DOMAIN glossreqs : ResolveGlossary(i)
    \/ \E i \in DOMAIN glossreqs : CreateDefault(i)
    \/ \E i \in DOMAIN glossreqs : ListGlossaries(i)
    \/ \E i \in DOMAIN glossreqs : SaveEntry(i)
    \/ \E i \in DOMAIN glossreqs : StartReset(i)
    \/ \E i \in DOMAIN glossreqs : EntryQuery(i)
    \/ \E i \in DOMAIN glossreqs : DeleteEntry(i)
    \/ \E i \in DOMAIN glossreqs : AnswerCommit(i)

SpecGlossary == InitGlossary /\ [][NextGlossary]_vars

---------------------------------------------------------------------------
(* The counters of the vocabulary test                                     *)

EntriesWithId(d, id) == {e \in d.glossary_entries : e.id = id}

CountersOrdered ==
    \A e \in db.glossary_entries :
        e.total_learning_rate >= e.learning_rate /\ e.learning_rate >= 0

\* the step of vocab-test request i, seen on the stored entries
VocabStepOf(i) ==
    LET r == glossreqs[i]
    IN  /\ (r.op = "answer" /\ r.phase = "received") => db' = db
        /\ (r.op = "answer" /\ r.phase = "found") =>
              \A e \in db.glossary_entries :
                  IF e.id # r.entry_id THEN e \in db'.glossary_entries
                  ELSE /\ [e EXCEPT
                             !.learning_rate = r.learning_rate + 1,
                             !.total_learning_rate = r.total_learning_rate + 1]
                          \in db'.glossary_entries
                       /\ (/\ e.learning_rate = r.learning_rate
                           /\ e.total_learning_rate = r.total_learning_rate)
                             => [e EXCEPT
                                   !.learning_rate = e.learning_rate + 1,
                                   !.total_learning_rate =
                                       e.total_learning_rate + 1]
                                \in db'.glossary_entries
        /\ (r.op = "start" /\ r.phase = "resolved") =>
              /\ \A e \in db.glossary_entries :
                    \/ e \in db'.glossary_entries
                    \/ [e EXCEPT !.learning_rate = 0] \in db'.glossary_entries
              /\ \A id \in {e.id : e \in db.glossary_entries} :
                    {e.total_learning_rate : e \in EntriesWithId(db', id)}
                        = {e.total_learning_rate : e \in EntriesWithId(db, id)}
        /\ r.op \in {"answer", "start"} =>
              Cardinality(db'.glossary_entries)
                  = Cardinality(db.glossary_entries)

VocabStep ==
    \A i \in DOMAIN glossreqs : glossreqs'[i] # glossreqs[i] => VocabStepOf(i)

\* C28: every glossary entry keeps total_learning_rate >= learning_rate >= 0
\* through vocab-test start and answer requests; a correct answer writes
\* both counters as the values it read plus one, which is one more for each
\* when the entry is still as it was read, an answer that is not correct
\* writes nothing, and start sets learning_rate to 0 on some entries and
\* changes no total_learning_rate.
C28_CountersOrdered == [](CountersOrdered) /\ [][VocabStep]_vars

\* two correct answers with a start between them: the test counter is back
\* at 1 while the total is 2
C28_AnsweredStartedAnswered ==
    /\ \A i \in DOMAIN glossreqs : glossreqs[i].phase = "responded"
    /\ \E i, j \in DOMAIN glossreqs :
          /\ glossreqs[i].op = "answer" /\ glossreqs[i].status = 200
          /\ glossreqs[j].op = "start" /\ glossreqs[j].status = 200
    /\ \E e \in db.glossary_entries :
          e.learning_rate = 1 /\ e.total_learning_rate = 2

---------------------------------------------------------------------------
(* Entries and glossaries of other users                                   *)

\* every entry that is in a glossary is in a glossary of its own user
EntryGlossaryOwned ==
    \A e \in db.glossary_entries :
        e.glossary_id # 0 =>
            \E g \in db.glossaries :
                g.id = e.glossary_id /\ g.user_id = e.user_id

OfOthers(rows, user) == {row \in rows : row.user_id \notin user}

\* the step of glossary request i, seen on the rows of the other users
OwnerStepOf(i) ==
    LET r == glossreqs[i]
        user == CurrentUser(r.caller, db)
        named == EntriesWithId(db, r.entry_id)
    IN  /\ OfOthers(db'.glossary_entries, user)
              = OfOthers(db.glossary_entries, user)
        /\ OfOthers(db'.glossaries, user) = OfOthers(db.glossaries, user)
        /\ db'.users = db.users
        /\ (/\ r.op \in {"delete_entry", "answer"}
            /\ r.phase = "received"
            /\ user # {}
            /\ OfOthers(named, user) = named)
              => /\ db' = db
                 /\ glossreqs'[i].phase = "responded"
                 /\ glossreqs'[i].status = 404
        /\ (/\ r.op \in {"save", "start"}
            /\ glossreqs'[i].phase = "resolved")
              => \E g \in db'.glossaries :
                    /\ g.id = glossreqs'[i].glossary
                    /\ {g.user_id} = user
        /\ (r.op \in {"save", "start"} /\ r.phase = "resolved")
              => \A e \in db'.glossary_entries \ db.glossary_entries :
                    \/ e.user_id \in user /\ e.glossary_id = r.glossary
                    \/ \E old \in db.glossary_entries :
                          /\ old.glossary_id = r.glossary
                          /\ e = [old EXCEPT !.learning_rate = 0]

OwnerStep ==
    \A i \in DOMAIN glossreqs : glossreqs'[i] # glossreqs[i] => OwnerStepOf(i)

---------------------------------------------------------------------------
(* The default glossary                                                    *)

\* C30: each user has at most one default glossary after any sequence and
\* any interleaving of requests that call get_or_create_default_glossary,
\* two requests of one user that both find no default glossary included.
C30_OneDefaultPerUser ==
    \A u \in DOMAIN db.users : Cardinality(DefaultGlossaries(db, u)) <= 1

============================================================================
